---------------------------- MODULE Spec2Model ----------------------------
(***************************************************************************)
(* A model of skaff: its configuration object, SkaffConfig                 *)
(* (src/skaff/config.py), and after it the authors of GenMakeConfig        *)
(* (src/genmake/config.py), the run of skaff_drive with its prompt         *)
(* (src/skaff/driver.py), getkey under timeout (src/skaff/clitools.py)     *)
(* and the manual page tools (src/skaff/manualtools.py).                   *)
(*                                                                         *)
(* Python strings that are stored in the authors / directories /          *)
(* subdirectories sets are sequences of one-character strings, so that     *)
(* endswith(os.sep), isprintable() and sorted() are computed as the code   *)
(* computes them.  License names, language names and paths are only ever   *)
(* compared and used as file-name parts, and are TLA+ strings.  A Python   *)
(* value handed to a mutator is a record [type, v].                        *)
(***************************************************************************)
EXTENDS Naturals, Sequences, FiniteSets, TLC

VARIABLES
    config,   \* self.__config: one optional value per attribute (<<>> is None)
    files,    \* license files present below the user license paths
    pc,       \* position of the caller: constructor step, "ready" or "failed"
    kwargs,   \* the constructor's keyword arguments, in the order given
    calls,    \* the mutators the constructor has called so far, in order
    last,     \* the last mutator called and the exception it raised ("" if none)
    pw,       \* pwd.getpwuid(os.getuid()): the current user's record
    ret,      \* what the last call returned, and whether the caller shares
              \* the object with the configuration
    drive,    \* a run of driver.skaff_drive: directories left, the tree on
              \* disk, the prompt and what was done so far (<<>> if none)
    tty,      \* stdin during clitools.getkey under timeout() (<<>> if none)
    man       \* the manual directories of manualtools (<<>> if none)

vars == <<config, files, pc, kwargs, calls, last, pw, ret, drive, tty, man>>

-----------------------------------------------------------------------------
(* Bounds of the model *)

\* Largest number of keys handed to paths_get.
MaxArgs == 2

\* Longest collection handed to authors_set / directories_set / subdirectories_set.
MaxItems == 2

\* Largest number of keyword arguments handed to the constructor.
MaxKwargs == 2

-----------------------------------------------------------------------------
(* Python values *)

sep == "/"

PyNone == [type |-> "NoneType", v |-> <<>>]

\* A value that is neither a string nor iterable (the tests use a lambda).
PyFunc == [type |-> "function", v |-> <<>>]

PyStr(s) == [type |-> "str", v |-> s]

PyList(items) == [type |-> "list", v |-> items]

PyBool(b) == [type |-> "bool", v |-> b]

PyDict(d) == [type |-> "dict", v |-> d]

\* str.isprintable(): no character of the string is a control character.
isprintable(s) == \A i \in 1..Len(s) : s[i] # "\t"

\* str.endswith(os.sep)
endswith_sep(s) == Len(s) > 0 /\ s[Len(s)] = sep

\* Code points of the characters the model uses.
ord(c) ==
    CASE c = "\t" -> 9
      [] c = " " -> 32
      [] c = "/" -> 47
      [] c = "2" -> 50
      [] c = "3" -> 51
      [] c = "a" -> 97
      [] c = "b" -> 98
      [] c = "c" -> 99
      [] c = "d" -> 100
      [] c = "e" -> 101
      [] c = "g" -> 103
      [] c = "i" -> 105
      [] c = "l" -> 108
      [] c = "m" -> 109
      [] c = "n" -> 110
      [] c = "o" -> 111
      [] c = "p" -> 112
      [] c = "r" -> 114
      [] c = "s" -> 115
      [] c = "t" -> 116
      [] c = "u" -> 117
      [] c = "x" -> 120
      [] c = "z" -> 122

\* s < t for Python strings: lexicographic by code point.
RECURSIVE str_lt(_, _)
str_lt(s, t) ==
    IF t = <<>> THEN FALSE
    ELSE IF s = <<>> THEN TRUE
    ELSE IF ord(s[1]) # ord(t[1]) THEN ord(s[1]) < ord(t[1])
    ELSE str_lt(Tail(s), Tail(t))

\* sorted(S, reverse=True)
RECURSIVE sorted_reverse(_)
sorted_reverse(S) ==
    IF S = {} THEN <<>>
    ELSE LET m == CHOOSE x \in S : \A y \in S \ {x} : str_lt(y, x)
         IN  <<m>> \o sorted_reverse(S \ {m})

\* sorted(S) for a set of strings.
RECURSIVE sorted(_)
sorted(S) ==
    IF S = {} THEN <<>>
    ELSE LET m == CHOOSE x \in S : \A y \in S \ {x} : str_lt(x, y)
         IN  <<m>> \o sorted(S \ {m})

\* collections.Counter(seq)[x]
Count(seq, x) == Cardinality({i \in 1..Len(seq) : seq[i] = x})

-----------------------------------------------------------------------------
(* self.__config *)

ATTRIBUTES ==
    <<"paths", "languages", "licenses", "subdirectories", "directories",
      "authors", "language", "license", "quiet">>

LANGUAGES == { <<"c">>, <<"c", "p", "p">> }

LICENSE_FORMATS == {".txt", ".md"}

bsd2 == <<"b", "s", "d", "2">>

bsd3 == <<"b", "s", "d", "3">>

gpl2 == <<"g", "p", "l", "2">>

gpl3 == <<"g", "p", "l", "3">>

mit == <<"m", "i", "t">>

LICENSES == {bsd2, bsd3, gpl2, gpl3, mit}

None == <<>>

Some(x) == <<x>>

\* dict.fromkeys(SkaffConfig.__ATTRIBUTES)
fromkeys == [k \in {ATTRIBUTES[i] : i \in 1..Len(ATTRIBUTES)} |-> None]

\* The result of a call: the configuration it leaves and the exception raised.
Ok(cfg) == [cfg |-> cfg, err |-> ""]

Raise(cfg, e) == [cfg |-> cfg, err |-> e]

\* What a call that returns nothing leaves with the caller.
NoValue == [val |-> PyNone, shared |-> FALSE]

-----------------------------------------------------------------------------
(* authors *)

\* author_fetch that tries the login name before the GECOS field.
author_fetch_name_first(pwrec) ==
    IF pwrec.pw_name # <<>> THEN [val |-> pwrec.pw_name, err |-> ""]
    ELSE IF pwrec.pw_gecos # <<>> THEN [val |-> pwrec.pw_gecos, err |-> ""]
    ELSE [val |-> <<>>, err |-> "RuntimeError"]

\* SkaffConfig.author_fetch: the GECOS field, else the login name.
author_fetch(pwrec) ==
    IF pwrec.pw_gecos # <<>> THEN [val |-> pwrec.pw_gecos, err |-> ""]
    ELSE IF pwrec.pw_name # <<>> THEN [val |-> pwrec.pw_name, err |-> ""]
    ELSE [val |-> <<>>, err |-> "RuntimeError"]

author_add(cfg, author) ==
    IF author.type # "str" THEN Raise(cfg, "TypeError")
    ELSE IF Len(author.v) = 0 THEN Raise(cfg, "ValueError")
    ELSE IF ~isprintable(author.v) THEN Raise(cfg, "ValueError")
    ELSE IF cfg.authors = None THEN Raise(cfg, "AttributeError")
    ELSE Ok([cfg EXCEPT !.authors = Some(cfg.authors[1] \cup {author.v})])

author_discard(cfg, author) ==
    IF author.type # "str" THEN Raise(cfg, "TypeError")
    ELSE IF Len(author.v) = 0 THEN Raise(cfg, "ValueError")
    ELSE IF ~isprintable(author.v) THEN Raise(cfg, "ValueError")
    ELSE IF cfg.authors = None THEN Raise(cfg, "AttributeError")
    ELSE Ok([cfg EXCEPT !.authors = Some(cfg.authors[1] \ {author.v})])

\* The loop "for author in authors: self.author_add(author)": the first
\* exception ends it, with the elements before it already added.
RECURSIVE authors_add_each(_, _)
authors_add_each(cfg, items) ==
    IF items = <<>> THEN Ok(cfg)
    ELSE LET r == author_add(cfg, Head(items))
         IN  IF r.err # "" THEN r ELSE authors_add_each(r.cfg, Tail(items))

\* authors_set that resets the set before it looks at its argument.
authors_set_reset_first(cfg, authors, pwrec) ==
    LET cleared == [cfg EXCEPT !.authors = Some({})]
    IN  IF authors.type = "NoneType"
        THEN LET fetched == author_fetch(pwrec)
             IN  IF fetched.err # "" THEN Raise(cleared, fetched.err)
                 ELSE author_add(cleared, PyStr(fetched.val))
        ELSE IF authors.type \notin {"str", "list"}
        THEN Raise(cleared, "TypeError")
        ELSE IF authors.type = "str" THEN Raise(cleared, "TypeError")
        ELSE IF Len(authors.v) = 0 THEN Raise(cleared, "ValueError")
        ELSE authors_add_each(cleared, authors.v)

authors_set(cfg, authors, pwrec) ==
    IF authors.type = "NoneType"
    THEN LET cleared == [cfg EXCEPT !.authors = Some({})]
             fetched == author_fetch(pwrec)
         IN  IF fetched.err # "" THEN Raise(cleared, fetched.err)
             ELSE author_add(cleared, PyStr(fetched.val))
    ELSE IF authors.type \notin {"str", "list"} THEN Raise(cfg, "TypeError")
    ELSE IF authors.type = "str" THEN Raise(cfg, "TypeError")
    ELSE IF Len(authors.v) = 0 THEN Raise(cfg, "ValueError")
    ELSE authors_add_each([cfg EXCEPT !.authors = Some({})], authors.v)

authors_get(cfg) == sorted(cfg.authors[1])

-----------------------------------------------------------------------------
(* directories *)

\* directory_add that stores the name as given.
directory_add_as_given(cfg, directory) ==
    IF directory.type # "str" THEN Raise(cfg, "TypeError")
    ELSE IF Len(directory.v) = 0 THEN Raise(cfg, "ValueError")
    ELSE IF ~isprintable(directory.v) THEN Raise(cfg, "ValueError")
    ELSE IF cfg.directories = None THEN Raise(cfg, "AttributeError")
    ELSE Ok([cfg EXCEPT
               !.directories = Some(cfg.directories[1] \cup {directory.v})])

directory_add(cfg, directory) ==
    IF directory.type # "str" THEN Raise(cfg, "TypeError")
    ELSE IF Len(directory.v) = 0 THEN Raise(cfg, "ValueError")
    ELSE IF ~isprintable(directory.v) THEN Raise(cfg, "ValueError")
    ELSE IF cfg.directories = None THEN Raise(cfg, "AttributeError")
    ELSE LET d == IF endswith_sep(directory.v) THEN directory.v
                  ELSE directory.v \o <<sep>>
         IN  Ok([cfg EXCEPT !.directories = Some(cfg.directories[1] \cup {d})])

\* directory_discard with set.remove in the place of set.discard.
directory_discard_remove(cfg, directory) ==
    IF directory.type # "str" THEN Raise(cfg, "TypeError")
    ELSE IF Len(directory.v) = 0 THEN Raise(cfg, "ValueError")
    ELSE IF ~isprintable(directory.v) THEN Raise(cfg, "ValueError")
    ELSE IF cfg.directories = None THEN Raise(cfg, "AttributeError")
    ELSE LET d == IF endswith_sep(directory.v) THEN directory.v
                  ELSE directory.v \o <<sep>>
         IN  IF d \notin cfg.directories[1] THEN Raise(cfg, "KeyError")
             ELSE Ok([cfg EXCEPT
                        !.directories = Some(cfg.directories[1] \ {d})])

directory_discard(cfg, directory) ==
    IF directory.type # "str" THEN Raise(cfg, "TypeError")
    ELSE IF Len(directory.v) = 0 THEN Raise(cfg, "ValueError")
    ELSE IF ~isprintable(directory.v) THEN Raise(cfg, "ValueError")
    ELSE IF cfg.directories = None THEN Raise(cfg, "AttributeError")
    ELSE LET d == IF endswith_sep(directory.v) THEN directory.v
                  ELSE directory.v \o <<sep>>
         IN  Ok([cfg EXCEPT !.directories = Some(cfg.directories[1] \ {d})])

RECURSIVE directories_add_each(_, _)
directories_add_each(cfg, items) ==
    IF items = <<>> THEN Ok(cfg)
    ELSE LET r == directory_add(cfg, Head(items))
         IN  IF r.err # "" THEN r ELSE directories_add_each(r.cfg, Tail(items))

\* directories_set without the isinstance(directories, str) check: a bare
\* string is iterated character by character.
directories_set_str_iterated(cfg, directories) ==
    IF directories.type \notin {"str", "list"} THEN Raise(cfg, "TypeError")
    ELSE LET items == IF directories.type = "str"
                      THEN [i \in 1..Len(directories.v) |->
                               PyStr(<<directories.v[i]>>)]
                      ELSE directories.v
         IN  IF Len(items) = 0 THEN Raise(cfg, "ValueError")
             ELSE directories_add_each([cfg EXCEPT !.directories = Some({})],
                                       items)

directories_set(cfg, directories) ==
    IF directories.type \notin {"str", "list"} THEN Raise(cfg, "TypeError")
    ELSE IF directories.type = "str" THEN Raise(cfg, "TypeError")
    ELSE IF Len(directories.v) = 0 THEN Raise(cfg, "ValueError")
    ELSE directories_add_each([cfg EXCEPT !.directories = Some({})],
                              directories.v)

directories_get(cfg) == sorted(cfg.directories[1])

-----------------------------------------------------------------------------
(* subdirectories *)

\* The default of subdirectories_set, stored as written in the source.
DEFAULT_SUBDIRECTORIES ==
    { <<"b", "u", "i", "l", "d">>,
      <<"c", "o", "c", "c", "i", "n", "e", "l", "l", "e">>,
      <<"d", "o", "c">>,
      <<"e", "x", "a", "m", "p", "l", "e", "s">>,
      <<"i", "m", "g">>,
      <<"s", "r", "c">>,
      <<"t", "e", "s", "t", "s">> }

subdirectory_add(cfg, subdirectory) ==
    IF subdirectory.type # "str" THEN Raise(cfg, "TypeError")
    ELSE IF Len(subdirectory.v) = 0 THEN Raise(cfg, "ValueError")
    ELSE IF ~isprintable(subdirectory.v) THEN Raise(cfg, "ValueError")
    ELSE IF cfg.subdirectories = None THEN Raise(cfg, "AttributeError")
    ELSE LET d == IF endswith_sep(subdirectory.v) THEN subdirectory.v
                  ELSE subdirectory.v \o <<sep>>
         IN  Ok([cfg EXCEPT
                   !.subdirectories = Some(cfg.subdirectories[1] \cup {d})])

subdirectory_discard(cfg, subdirectory) ==
    IF subdirectory.type # "str" THEN Raise(cfg, "TypeError")
    ELSE IF Len(subdirectory.v) = 0 THEN Raise(cfg, "ValueError")
    ELSE IF ~isprintable(subdirectory.v) THEN Raise(cfg, "ValueError")
    ELSE IF cfg.subdirectories = None THEN Raise(cfg, "AttributeError")
    ELSE LET d == IF endswith_sep(subdirectory.v) THEN subdirectory.v
                  ELSE subdirectory.v \o <<sep>>
         IN  Ok([cfg EXCEPT
                   !.subdirectories = Some(cfg.subdirectories[1] \ {d})])

RECURSIVE subdirectories_add_each(_, _)
subdirectories_add_each(cfg, items) ==
    IF items = <<>> THEN Ok(cfg)
    ELSE LET r == subdirectory_add(cfg, Head(items))
         IN  IF r.err # "" THEN r
             ELSE subdirectories_add_each(r.cfg, Tail(items))

subdirectories_set(cfg, subdirectories) ==
    IF subdirectories.type = "NoneType"
    THEN Ok([cfg EXCEPT !.subdirectories = Some(DEFAULT_SUBDIRECTORIES)])
    ELSE IF subdirectories.type \notin {"str", "list"}
    THEN Raise(cfg, "TypeError")
    ELSE IF subdirectories.type = "str" THEN Raise(cfg, "TypeError")
    ELSE IF Len(subdirectories.v) = 0 THEN Raise(cfg, "ValueError")
    ELSE subdirectories_add_each([cfg EXCEPT !.subdirectories = Some({})],
                                 subdirectories.v)

subdirectories_get(cfg) == sorted(cfg.subdirectories[1])

-----------------------------------------------------------------------------
(* paths *)

\* os.path.expanduser("~") + os.sep + ".config" + os.sep + "skaff" + os.sep
user_config == "~/.config/skaff/"

user_template == "~/.config/skaff/template/"

user_license == "~/.config/skaff/license/"

\* SkaffConfig.basepath_fetch() + "config" + os.sep + "license" + os.sep
system_license_path == "<basepath>/config/license/"

\* paths_set that keeps the stored value of a key that is not given.
paths_set_keep_previous(cfg, kw) ==
    IF ~(\A key \in DOMAIN kw :
            key \in {"config", "license", "template"} /\ kw[key].type = "str")
    THEN Raise(cfg, "ValueError")
    ELSE LET get(key, default) ==
                 IF key \in DOMAIN kw THEN kw[key].v
                 ELSE IF cfg.paths # None THEN cfg.paths[1][key]
                 ELSE default
         IN  Ok([cfg EXCEPT !.paths =
                   Some([config   |-> get("config", user_config),
                         license  |-> get("license", user_license),
                         template |-> get("template", user_template)])])

\* paths_set(**kw): kw is a function from the keyword names given to values.
paths_set(cfg, kw) ==
    IF ~(\A key \in DOMAIN kw :
            key \in {"config", "license", "template"} /\ kw[key].type = "str")
    THEN Raise(cfg, "ValueError")
    ELSE LET get(key, default) ==
                 IF key \in DOMAIN kw THEN kw[key].v ELSE default
         IN  Ok([cfg EXCEPT !.paths =
                   Some([config   |-> get("config", user_config),
                         license  |-> get("license", user_license),
                         template |-> get("template", user_template)])])

\* paths_get that returns the stored dictionary itself.
paths_get_uncopied(cfg, args) ==
    IF ~(\A i \in 1..Len(args) : args[i].type = "str")
    THEN [val |-> PyNone, err |-> "TypeError", shared |-> FALSE]
    ELSE IF cfg.paths = None
    THEN [val |-> PyNone, err |-> "TypeError", shared |-> FALSE]
    ELSE IF Len(args) = 0
    THEN [val |-> PyDict(cfg.paths[1]), err |-> "", shared |-> TRUE]
    ELSE IF ~(\A i \in 1..Len(args) : args[i].v \in DOMAIN cfg.paths[1])
    THEN [val |-> PyNone, err |-> "KeyError", shared |-> FALSE]
    ELSE IF Len(args) = 1
    THEN [val |-> PyStr(cfg.paths[1][args[1].v]), err |-> "", shared |-> FALSE]
    ELSE [val |-> PyNone, err |-> "", shared |-> FALSE]

\* paths_get(*args): the value returned, the exception raised, and whether
\* the value is the stored object itself (copy.deepcopy makes it a new one).
paths_get(cfg, args) ==
    IF ~(\A i \in 1..Len(args) : args[i].type = "str")
    THEN [val |-> PyNone, err |-> "TypeError", shared |-> FALSE]
    ELSE IF cfg.paths = None
    THEN [val |-> PyNone, err |-> "TypeError", shared |-> FALSE]
    ELSE IF Len(args) = 0
    THEN [val |-> PyDict(cfg.paths[1]), err |-> "", shared |-> FALSE]
    ELSE IF ~(\A i \in 1..Len(args) : args[i].v \in DOMAIN cfg.paths[1])
    THEN [val |-> PyNone, err |-> "KeyError", shared |-> FALSE]
    ELSE IF Len(args) = 1
    THEN [val |-> PyStr(cfg.paths[1][args[1].v]), err |-> "", shared |-> FALSE]
    ELSE [val |-> PyNone, err |-> "", shared |-> FALSE]

-----------------------------------------------------------------------------
(* The file system: a file is [dir, name, ext], i.e. dir + name + ext. *)

\* os.path.isfile(dir + name + ext)
isfile(fs, dir, name, ext) == [dir |-> dir, name |-> name, ext |-> ext] \in fs

\* os.path.isdir(dir).  A directory of the model exists when it holds a file:
\* an empty directory and a missing one are probed to the same result.
isdir(fs, dir) == \E f \in fs : f.dir = dir

\* glob.iglob(dir + "*" + ext), reduced to the names without path and extension
glob_names(fs, dir, ext) == {f.name : f \in {g \in fs : g.dir = dir /\ g.ext = ext}}

\* The stock license files distributed with the program.
STOCK_FILES ==
    {[dir |-> system_license_path, name |-> n, ext |-> e] :
        n \in LICENSES, e \in LICENSE_FORMATS}

-----------------------------------------------------------------------------
(* language *)

languages_list(cfg) == sorted(LANGUAGES)

languages_probe(cfg) == Ok(cfg)

\* x in seq
In(x, seq) == \E i \in 1..Len(seq) : seq[i] = x

\* What is left of a generator after the test "x not in generator": the test
\* draws items up to and including the first one equal to x, and all of them
\* when none is.
drained(x, gen) ==
    IF x.type = "str" /\ In(x.v, gen)
    THEN LET i == CHOOSE k \in 1..Len(gen) :
                      gen[k] = x.v /\ \A j \in 1..(k - 1) : gen[j] # x.v
         IN  SubSeq(gen, i + 1, Len(gen))
    ELSE <<>>

\* separator.join(items)
RECURSIVE join(_, _)
join(separator, items) ==
    IF Len(items) = 0 THEN <<>>
    ELSE IF Len(items) = 1 THEN items[1]
    ELSE items[1] \o separator \o join(separator, Tail(items))

\* The adjacent literals "'language' choice must be one of the following:",
\* " " and ", " are one string, on which join is called.
language_choice_literal ==
    << "'", "l", "a", "n", "g", "u", "a", "g", "e", "'", " ", "c", "h", "o",
       "i", "c", "e", " ", "m", "u", "s", "t", " ", "b", "e", " ", "o", "n",
       "e", " ", "o", "f", " ", "t", "h", "e", " ", "f", "o", "l", "l", "o",
       "w", "i", "n", "g", ":", " ", ",", " " >>

\* An exception raised with the message the code builds for it.
RaiseWith(cfg, e, message) == [cfg |-> cfg, err |-> e, message |-> message]

language_set(cfg, language) ==
    LET languages == languages_list(cfg)
    IN  IF language.type = "NoneType"
        THEN Ok([cfg EXCEPT !.language = Some(<<"c">>)])
        ELSE IF ~(language.type = "str" /\ In(language.v, languages))
        THEN RaiseWith(cfg, "ValueError",
                       join(language_choice_literal,
                            drained(language, languages)))
        ELSE Ok([cfg EXCEPT !.language = Some(language.v)])

language_get(cfg) == cfg.language

-----------------------------------------------------------------------------
(* license *)

\* licenses_list(fullname=False)
licenses_list(cfg) == sorted(cfg.licenses[1])

licenses_probe(cfg, fs) ==
    LET reset == [cfg EXCEPT !.licenses = Some(LICENSES)]
        user_license_path == paths_get(cfg, <<PyStr("license")>>)
        temp_license_dict ==
            [ext \in LICENSE_FORMATS |->
                glob_names(fs, user_license_path.val.v, ext)]
    IN  IF user_license_path.err # "" THEN Raise(reset, user_license_path.err)
        ELSE IF ~isdir(fs, user_license_path.val.v) THEN Ok(reset)
        ELSE IF temp_license_dict[".txt"] # temp_license_dict[".md"]
        THEN Raise(reset, "FileNotFoundError")
        ELSE Ok([reset EXCEPT
                   !.licenses = Some(LICENSES \cup temp_license_dict[".txt"])])

\* A file name as a Python string: dir + name + ext, kept in its three parts.
PyPath(f) == [type |-> "str", v |-> f]

\* driver._license_sign(directory, config): the license file whose text is
\* written to directory + "LICENSE.txt", and the exception open() or
\* shutil.copy() raises when that file does not exist.
_license_sign(cfg, fs) ==
    LET license_source ==
            [dir |-> system_license_path, name |-> cfg.license[1], ext |-> ".txt"]
    IN  IF license_source \in fs
        THEN [val |-> PyPath(license_source), err |-> ""]
        ELSE [val |-> PyNone, err |-> "FileNotFoundError"]

\* driver._doc_create(directory, config): the license file whose text is
\* written to directory + "README.md".
_doc_create(cfg, fs) ==
    LET license_text ==
            [dir |-> system_license_path, name |-> cfg.license[1], ext |-> ".md"]
    IN  IF license_text \in fs
        THEN [val |-> PyPath(license_text), err |-> ""]
        ELSE [val |-> PyNone, err |-> "FileNotFoundError"]

\* The file of a license in one format that the fullname listings name: the
\* one in the user license path if it is there, else the stock one if it is
\* there, else none (<<>>).
fullname_lookup_system_first(cfg, fs, license, ext) ==
    LET user_license_file_name ==
            [dir |-> paths_get(cfg, <<PyStr("license")>>).val.v,
             name |-> license, ext |-> ext]
        sys_license_file_name ==
            [dir |-> system_license_path, name |-> license, ext |-> ext]
    IN  IF sys_license_file_name \in fs THEN <<sys_license_file_name>>
        ELSE IF user_license_file_name \in fs THEN <<user_license_file_name>>
        ELSE <<>>

fullname_lookup(cfg, fs, license, ext) ==
    LET user_license_file_name ==
            [dir |-> paths_get(cfg, <<PyStr("license")>>).val.v,
             name |-> license, ext |-> ext]
        sys_license_file_name ==
            [dir |-> system_license_path, name |-> license, ext |-> ext]
    IN  IF user_license_file_name \in fs THEN <<user_license_file_name>>
        ELSE IF sys_license_file_name \in fs THEN <<sys_license_file_name>>
        ELSE <<>>

\* The orders in which a loop over the frozenset __LICENSE_FORMATS may run.
FormatOrders == { <<".txt", ".md">>, <<".md", ".txt">> }

\* licenses_list(fullname=True), consumed to its end: the file names yielded
\* and the exception that ends the generator.  formats is the order in which
\* the loop over __LICENSE_FORMATS runs.
licenses_list_fullname(cfg, fs, formats) ==
    LET licenses == licenses_list(cfg)
        n == Len(licenses) * Len(formats)
        found == [k \in 1..n |->
                    fullname_lookup(cfg, fs,
                                    licenses[((k - 1) \div Len(formats)) + 1],
                                    formats[((k - 1) % Len(formats)) + 1])]
        missing == {k \in 1..n : found[k] = <<>>}
        stop == IF missing = {} THEN n
                ELSE (CHOOSE k \in missing : \A j \in missing : k <= j) - 1
    IN  [val |-> PyList([k \in 1..stop |-> PyPath(found[k][1])]),
         err |-> IF missing = {} THEN "" ELSE "FileNotFoundError"]

\* license_get(fullname=True)
license_get_fullname(cfg, fs, formats) ==
    LET found == [k \in 1..Len(formats) |->
                    fullname_lookup(cfg, fs, cfg.license[1], formats[k])]
    IN  IF \E k \in 1..Len(formats) : found[k] = <<>>
        THEN [val |-> PyNone, err |-> "FileNotFoundError"]
        ELSE [val |-> PyList([k \in 1..Len(formats) |-> PyPath(found[k][1])]),
              err |-> ""]

\* licenses_validate(): the exception raised ("" if none).
licenses_validate(fs) ==
    IF ~isdir(fs, system_license_path) THEN "FileNotFoundError"
    ELSE IF \E license \in LICENSES, file_ext \in {".txt", ".md"} :
                ~isfile(fs, system_license_path, license, file_ext)
    THEN "FileNotFoundError"
    ELSE ""

\* license_set with the validation and the probe left out: the choice is
\* checked against the licenses as they were last probed.
license_set_unprobed(cfg, license, fs) ==
    IF license.type = "NoneType"
    THEN Ok([cfg EXCEPT !.license = Some(bsd2)])
    ELSE IF ~(license.type = "str" /\ In(license.v, licenses_list(cfg)))
    THEN Raise(cfg, "ValueError")
    ELSE Ok([cfg EXCEPT !.license = Some(license.v)])

\* The adjacent literals "'license' choice must be one of the following: "
\* and ", " are one string, on which join is called.
license_choice_literal ==
    << "'", "l", "i", "c", "e", "n", "s", "e", "'", " ", "c", "h", "o", "i",
       "c", "e", " ", "m", "u", "s", "t", " ", "b", "e", " ", "o", "n", "e",
       " ", "o", "f", " ", "t", "h", "e", " ", "f", "o", "l", "l", "o", "w",
       "i", "n", "g", ":", " ", ",", " " >>

license_set(cfg, license, fs) ==
    IF licenses_validate(fs) # "" THEN Raise(cfg, licenses_validate(fs))
    ELSE LET probed == licenses_probe(cfg, fs)
         IN  IF probed.err # "" THEN probed
             ELSE IF license.type = "NoneType"
             THEN Ok([probed.cfg EXCEPT !.license = Some(bsd2)])
             ELSE IF ~(license.type = "str"
                       /\ In(license.v, licenses_list(probed.cfg)))
             THEN RaiseWith(probed.cfg, "ValueError",
                            join(license_choice_literal,
                                 drained(license,
                                         licenses_list(probed.cfg))))
             ELSE Ok([probed.cfg EXCEPT !.license = Some(license.v)])

\* license_get(fullname=False)
license_get(cfg) == cfg.license

-----------------------------------------------------------------------------
(* quiet *)

\* quiet_set that takes every value that is not a boolean for the default.
quiet_set_lenient(cfg, quiet) ==
    IF quiet.type # "bool" THEN Ok([cfg EXCEPT !.quiet = Some(TRUE)])
    ELSE Ok([cfg EXCEPT !.quiet = Some(quiet.v)])

quiet_set(cfg, quiet) ==
    IF quiet.type = "NoneType" THEN Ok([cfg EXCEPT !.quiet = Some(TRUE)])
    ELSE IF quiet.type # "bool" THEN Raise(cfg, "TypeError")
    ELSE Ok([cfg EXCEPT !.quiet = Some(quiet.v)])

quiet_get(cfg) == cfg.quiet

-----------------------------------------------------------------------------
(* The constructor *)

METHODS ==
    <<"paths_set", "languages_probe", "licenses_probe", "subdirectories_set",
      "directories_set", "authors_set", "language_set", "license_set",
      "quiet_set">>

\* key in kwargs, kwargs[key]: kwargs is a sequence of [key, val] in the
\* order the caller wrote them.
HasKey(kw, key) == \E i \in 1..Len(kw) : kw[i].key = key

Lookup(kw, key) == kw[CHOOSE i \in 1..Len(kw) : kw[i].key = key].val

\* kwargs.setdefault("directories", directories)
setdefault(kw, key, val) ==
    IF HasKey(kw, key) THEN kw ELSE Append(kw, [key |-> key, val |-> val])

\* A bound method called with the positional arguments args (none or one).
call(method, cfg, args, fs, pwrec) ==
    LET arg == IF args = <<>> THEN PyNone ELSE args[1]
    IN  CASE method = "paths_set" ->
                 IF args # <<>> THEN Raise(cfg, "TypeError")
                 ELSE paths_set(cfg, <<>>)
          [] method = "languages_probe" ->
                 IF args # <<>> THEN Raise(cfg, "TypeError")
                 ELSE languages_probe(cfg)
          [] method = "licenses_probe" ->
                 IF args # <<>> THEN Raise(cfg, "TypeError")
                 ELSE licenses_probe(cfg, fs)
          [] method = "subdirectories_set" -> subdirectories_set(cfg, arg)
          [] method = "directories_set" -> directories_set(cfg, arg)
          [] method = "authors_set" -> authors_set(cfg, arg, pwrec)
          [] method = "language_set" -> language_set(cfg, arg)
          [] method = "license_set" -> license_set(cfg, arg, fs)
          [] method = "quiet_set" -> quiet_set(cfg, arg)

\* The elements of a collection of strings, as they are stored.
Elements(collection) == {collection.v[i].v : i \in 1..Len(collection.v)}

\* __ARGUMENTS = OrderedDict(zip(__ATTRIBUTES, __METHODS)): __ARGUMENTS[key]
arguments(key) == METHODS[CHOOSE i \in 1..Len(ATTRIBUTES) : ATTRIBUTES[i] = key]

\* The keys in the order of a loop "for key in kwargs" that then takes up the
\* attributes not given: the i-th of them.
init_key_kwargs_first(i, kw) ==
    LET given == SelectSeq([j \in 1..Len(kw) |-> kw[j].key],
                           LAMBDA k : \E j \in 1..Len(ATTRIBUTES) : ATTRIBUTES[j] = k)
        rest == SelectSeq(ATTRIBUTES, LAMBDA k : ~HasKey(kw, k))
    IN  (given \o rest)[i]

\* The key of the i-th round of "for key in __ARGUMENTS".
init_key(i, kw) == ATTRIBUTES[i]

\* One round of the loop: the key's mutator, given the keyword argument of
\* that name if there is one.
init_step(cfg, i, kw, fs, pwrec) ==
    LET key == init_key(i, kw)
    IN  IF HasKey(kw, key)
        THEN call(arguments(key), cfg, <<Lookup(kw, key)>>, fs, pwrec)
        ELSE call(arguments(key), cfg, <<>>, fs, pwrec)

\* The whole loop from round i on; the first exception ends it.
RECURSIVE init_loop(_, _, _, _, _)
init_loop(cfg, i, kw, fs, pwrec) ==
    IF i > Len(ATTRIBUTES) THEN Ok(cfg)
    ELSE LET r == init_step(cfg, i, kw, fs, pwrec)
         IN  IF r.err # "" THEN r ELSE init_loop(r.cfg, i + 1, kw, fs, pwrec)

\* SkaffConfig(directories, **kw)
SkaffConfig(directories, kw, fs, pwrec) ==
    init_loop(fromkeys, 1, setdefault(kw, "directories", directories), fs, pwrec)

-----------------------------------------------------------------------------
(* GenMakeConfig (src/genmake/config.py): the authors.  Its configuration is
   a dictionary that starts empty; here it is the record of its one key. *)

\* set(s) for a string s: the set of its characters, each a string.
set_of_str(s) == { <<s[i]>> : i \in 1..Len(s) }

GenMakeConfig_author_fetch(pwrec) == author_fetch(pwrec)

GenMakeConfig_authors_set(cfg, authors, pwrec) ==
    IF authors.type = "NoneType"
    THEN LET fetched == GenMakeConfig_author_fetch(pwrec)
         IN  IF fetched.err # "" THEN Raise(cfg, fetched.err)
             ELSE Ok([cfg EXCEPT !.authors = Some(set_of_str(fetched.val))])
    ELSE IF authors.type \notin {"str", "list"} THEN Raise(cfg, "ValueError")
    ELSE IF authors.type = "str" THEN Raise(cfg, "ValueError")
    ELSE IF Len(authors.v) = 0 THEN Raise(cfg, "ValueError")
    ELSE IF \E i \in 1..Len(authors.v) : authors.v[i].type # "str"
    THEN Raise(cfg, "ValueError")
    ELSE IF \E i \in 1..Len(authors.v) : ~isprintable(authors.v[i].v)
    THEN Raise(cfg, "ValueError")
    ELSE Ok([cfg EXCEPT !.authors = Some(Elements(authors))])

GenMakeConfig_author_add(cfg, author) ==
    IF author.type # "str" THEN Raise(cfg, "ValueError")
    ELSE IF Len(author.v) = 0 THEN Raise(cfg, "ValueError")
    ELSE IF ~isprintable(author.v) THEN Raise(cfg, "ValueError")
    ELSE Ok([cfg EXCEPT !.authors = Some(cfg.authors[1] \cup {author.v})])

GenMakeConfig_author_discard(cfg, author) ==
    IF author.type # "str" THEN Raise(cfg, "ValueError")
    ELSE IF Len(author.v) = 0 THEN Raise(cfg, "ValueError")
    ELSE IF ~isprintable(author.v) THEN Raise(cfg, "ValueError")
    ELSE Ok([cfg EXCEPT !.authors = Some(cfg.authors[1] \ {author.v})])

\* GenMakeConfig.authors_get returns the stored set itself.
GenMakeConfig_authors_get(cfg) == cfg.authors[1]

-----------------------------------------------------------------------------
(* Inputs *)

SeqsUpTo(S, n) == UNION {[1..k -> S] : k \in 0..n}

zlib == <<"z", "l", "i", "b">>

\* Elements handed to the add / discard mutators and put into collections.
ElemInputs ==
    { PyFunc, PyStr(<<>>), PyStr(<<"\t">>), PyStr(<<"a">>),
      PyStr(<<"a", "/">>), PyStr(<<"b">>) }

\* Arguments of authors_set / directories_set / subdirectories_set.
SetInputs ==
    {PyList(q) : q \in SeqsUpTo(ElemInputs, MaxItems)}
        \cup {PyNone, PyFunc, PyStr(<<"a">>)}

LanguageInputs == {PyNone, PyStr(<<"c">>), PyStr(<<"c", "p", "p">>), PyStr(<<"d">>)}

LicenseInputs == {PyNone, PyStr(bsd2), PyStr(mit), PyStr(zlib), PyStr(<<"x">>)}

QuietInputs == {PyNone, PyBool(TRUE), PyBool(FALSE), PyStr(<<>>)}

\* Keyword arguments of paths_set.
PathsInputs ==
    { <<>>,
      [license |-> PyStr("tmp/")],
      [license |-> PyNone],
      [random |-> PyStr("tmp/")] }

\* Positional arguments of paths_get.
PathsGetInputs ==
    SeqsUpTo({PyStr("config"), PyStr("license"), PyStr("template")}, MaxArgs)
        \cup {<<PyNone>>, <<PyStr("random")>>}

\* Files that come and go between calls: a custom license in either user
\* license path, and one of the stock files.
FileInputs ==
    {[dir |-> d, name |-> zlib, ext |-> e] :
        d \in {user_license, "tmp/"}, e \in LICENSE_FORMATS}
        \cup {[dir |-> system_license_path, name |-> mit, ext |-> ".md"]}

\* Files that come and go around the listings with full names: a custom
\* license and an override of bsd2 in the path tmp/, and one of the stock files.
FullnameFileInputs ==
    {[dir |-> "tmp/", name |-> n, ext |-> e] :
        n \in {bsd2, zlib}, e \in LICENSE_FORMATS}
        \cup {[dir |-> system_license_path, name |-> bsd2, ext |-> ".md"]}

\* The current user's record.
PwInputs ==
    { [pw_gecos |-> <<"a">>, pw_name |-> <<"b">>],
      [pw_gecos |-> <<>>, pw_name |-> <<"b">>],
      [pw_gecos |-> <<>>, pw_name |-> <<>>] }

\* The current user's record, for GenMakeConfig.
GenMakePwInputs ==
    { [pw_gecos |-> <<"a", "b">>, pw_name |-> <<"c">>],
      [pw_gecos |-> <<>>, pw_name |-> <<"c">>] }

\* Arguments of GenMakeConfig.authors_set, and of author_add / author_discard.
GenMakeSetInputs ==
    { PyNone, PyFunc, PyList(<<>>), PyList(<<PyStr(<<"a">>)>>),
      PyList(<<PyStr(<<"a", "b">>), PyStr(<<"\t">>)>>) }

GenMakeElemInputs ==
    { PyStr(<<>>), PyStr(<<"a">>), PyStr(<<"b">>), PyStr(<<"c">>),
      PyStr(<<"a", "b">>) }

\* Keyword arguments of the constructor, by name.
KwargInputs ==
    {[key |-> "authors", val |-> x] :
        x \in {PyList(<<>>), PyList(<<PyStr(<<"b">>)>>)}}
    \cup {[key |-> "directories", val |-> x] :
        x \in {PyList(<<PyStr(<<"b">>)>>), PyList(<<PyStr(<<>>)>>)}}
    \cup {[key |-> "language", val |-> x] :
        x \in {PyStr(<<"c", "p", "p">>), PyStr(<<"d">>)}}
    \cup {[key |-> "license", val |-> x] : x \in {PyStr(mit), PyStr(zlib)}}
    \cup {[key |-> "paths", val |-> x] :
        x \in {PyDict([license |-> PyStr("tmp/")])}}
    \cup {[key |-> "quiet", val |-> x] : x \in {PyBool(FALSE), PyStr(<<>>)}}
    \cup {[key |-> "subdirectories", val |-> x] :
        x \in {PyList(<<PyStr(<<"a">>)>>), PyFunc}}

\* **kwargs: at most MaxKwargs keyword arguments with distinct names.
KwargsInputs ==
    {kw \in SeqsUpTo(KwargInputs, MaxKwargs) :
        \A i, j \in 1..Len(kw) : i # j => kw[i].key # kw[j].key}

-----------------------------------------------------------------------------
(* Actions *)

\* A mutator returns or raises: the configuration it leaves is stored.
\* A mutator returns nothing; when it raises an exception whose message it
\* has built, ret holds that message.
Return(op, r) ==
    /\ config' = r.cfg
    /\ last' = [op |-> op, err |-> r.err]
    /\ ret' = IF "message" \in DOMAIN r
              THEN [val |-> PyStr(r.message), shared |-> FALSE]
              ELSE NoValue
    /\ UNCHANGED <<files, pc, kwargs, calls, pw, drive, tty, man>>

authors_set_call(a) == pc = "ready" /\ Return("authors_set", authors_set(config, a, pw))

author_add_call(a) == pc = "ready" /\ Return("author_add", author_add(config, a))

author_discard_call(a) ==
    pc = "ready" /\ Return("author_discard", author_discard(config, a))

directories_set_call(a) ==
    pc = "ready" /\ Return("directories_set", directories_set(config, a))

directory_add_call(a) ==
    pc = "ready" /\ Return("directory_add", directory_add(config, a))

directory_discard_call(a) ==
    pc = "ready" /\ Return("directory_discard", directory_discard(config, a))

subdirectories_set_call(a) ==
    pc = "ready" /\ Return("subdirectories_set", subdirectories_set(config, a))

subdirectory_add_call(a) ==
    pc = "ready" /\ Return("subdirectory_add", subdirectory_add(config, a))

subdirectory_discard_call(a) ==
    pc = "ready" /\ Return("subdirectory_discard", subdirectory_discard(config, a))

paths_set_call(kw) == pc = "ready" /\ Return("paths_set", paths_set(config, kw))

licenses_probe_call ==
    pc = "ready" /\ Return("licenses_probe", licenses_probe(config, files))

language_set_call(a) ==
    pc = "ready" /\ Return("language_set", language_set(config, a))

license_set_call(a) ==
    pc = "ready" /\ Return("license_set", license_set(config, a, files))

quiet_set_call(a) == pc = "ready" /\ Return("quiet_set", quiet_set(config, a))

\* A call that leaves the configuration alone and hands r.val to the caller.
Yield(op, r, shared) ==
    /\ last' = [op |-> op, err |-> r.err]
    /\ ret' = [val |-> r.val, shared |-> shared]
    /\ UNCHANGED <<config, files, pc, kwargs, calls, pw, drive, tty, man>>

paths_get_call(args) ==
    /\ pc = "ready"
    /\ LET r == paths_get(config, args)
       IN  Yield("paths_get", r, r.shared)

\* result_dict[key] = val, on a dictionary that paths_get() returned: an
\* object shared with the configuration changes there as well.
result_dict_setitem(key, val) ==
    /\ pc = "ready"
    /\ ret.val.type = "dict"
    /\ ret' = [ret EXCEPT !.val.v[key] = val]
    /\ config' = IF ret.shared THEN [config EXCEPT !.paths = Some(ret'.val.v)]
                 ELSE config
    /\ last' = [op |-> "result_dict_setitem", err |-> ""]
    /\ UNCHANGED <<files, pc, kwargs, calls, pw, drive, tty, man>>

licenses_list_call(fullname, formats) ==
    /\ pc = "ready"
    /\ IF fullname
       THEN Yield("licenses_list",
                  licenses_list_fullname(config, files, formats), FALSE)
       ELSE Yield("licenses_list",
                  [val |-> PyList(licenses_list(config)), err |-> ""], FALSE)

license_get_call(fullname, formats) ==
    /\ pc = "ready"
    /\ IF fullname
       THEN Yield("license_get",
                  license_get_fullname(config, files, formats), FALSE)
       ELSE Yield("license_get",
                  [val |-> PyStr(license_get(config)[1]), err |-> ""], FALSE)

\* skaff_drive(config) reaches _license_sign and _doc_create for a directory.
license_sign_call ==
    pc = "ready" /\ Yield("_license_sign", _license_sign(config, files), FALSE)

doc_create_call ==
    pc = "ready" /\ Yield("_doc_create", _doc_create(config, files), FALSE)

GenMakeConfig_authors_set_call(a) ==
    /\ pc = "ready"
    /\ Return("GenMakeConfig.authors_set",
              GenMakeConfig_authors_set(config, a, pw))

GenMakeConfig_author_add_call(a) ==
    /\ pc = "ready"
    /\ Return("GenMakeConfig.author_add", GenMakeConfig_author_add(config, a))

GenMakeConfig_author_discard_call(a) ==
    /\ pc = "ready"
    /\ Return("GenMakeConfig.author_discard",
              GenMakeConfig_author_discard(config, a))

\* The user copies a license file into place, or removes one, between calls.
file_create(f) ==
    /\ pc = "ready"
    /\ f \notin files
    /\ files' = files \cup {f}
    /\ UNCHANGED <<config, pc, kwargs, calls, last, pw, ret, drive, tty, man>>

file_remove(f) ==
    /\ pc = "ready"
    /\ f \in files
    /\ files' = files \ {f}
    /\ UNCHANGED <<config, pc, kwargs, calls, last, pw, ret, drive, tty, man>>

\* One round of the constructor's loop over __ARGUMENTS.
init_round ==
    /\ pc = "init"
    /\ LET i == Len(calls) + 1
           r == init_step(config, i, kwargs, files, pw)
           m == arguments(init_key(i, kwargs))
       IN  /\ config' = r.cfg
           /\ calls' = Append(calls, m)
           /\ last' = [op |-> m, err |-> r.err]
           /\ pc' = IF r.err # "" THEN "failed"
                    ELSE IF i = Len(ATTRIBUTES) THEN "ready"
                    ELSE "init"
    /\ UNCHANGED <<files, kwargs, pw, ret, drive, tty, man>>

-----------------------------------------------------------------------------
(* Specifications *)

\* The object of the tests' setUp, SkaffConfig(("a",)), on a system whose
\* stock licenses are installed.
Constructed ==
    SkaffConfig(PyList(<<PyStr(<<"a">>)>>), <<>>, STOCK_FILES, pw)

\* After construction: the mutators of the three sets.
Init ==
    /\ pw = [pw_gecos |-> <<"a">>, pw_name |-> <<"b">>]
    /\ files = STOCK_FILES
    /\ Constructed.err = ""
    /\ config = Constructed.cfg
    /\ pc = "ready"
    /\ kwargs = <<>>
    /\ calls = METHODS
    /\ last = [op |-> "__init__", err |-> ""]
    /\ ret = NoValue
    /\ drive = None
    /\ tty = None
    /\ man = None

Next ==
    \/ \E a \in SetInputs : authors_set_call(a)
    \/ \E a \in ElemInputs : author_add_call(a)
    \/ \E a \in ElemInputs : author_discard_call(a)
    \/ \E a \in SetInputs : directories_set_call(a)
    \/ \E a \in ElemInputs : directory_add_call(a)
    \/ \E a \in ElemInputs : directory_discard_call(a)
    \/ \E a \in SetInputs : subdirectories_set_call(a)
    \/ \E a \in ElemInputs : subdirectory_add_call(a)
    \/ \E a \in ElemInputs : subdirectory_discard_call(a)

Spec == Init /\ [][Next]_vars

\* After construction: paths, licenses, language, license and quiet, with
\* license files coming and going between the calls.
NextLicense ==
    \/ \E kw \in PathsInputs : paths_set_call(kw)
    \/ licenses_probe_call
    \/ \E a \in LanguageInputs : language_set_call(a)
    \/ \E a \in LicenseInputs : license_set_call(a)
    \/ \E a \in QuietInputs : quiet_set_call(a)
    \/ \E f \in FileInputs : file_create(f)
    \/ \E f \in FileInputs : file_remove(f)
    \/ \E args \in PathsGetInputs : paths_get_call(args)
    \/ \E key \in {"config", "license", "template"} :
          result_dict_setitem(key, "changed/")
    \/ license_sign_call
    \/ doc_create_call

SpecLicense == Init /\ [][NextLicense]_vars

\* After construction: the listings with full file names, with a custom
\* license, an overridden stock license and a stock file coming and going.
NextFullname ==
    \/ \E kw \in {<<>>, [license |-> PyStr("tmp/")]} : paths_set_call(kw)
    \/ licenses_probe_call
    \/ \E a \in {PyStr(bsd2), PyStr(zlib)} : license_set_call(a)
    \/ \E f \in FullnameFileInputs : file_create(f)
    \/ \E f \in FullnameFileInputs : file_remove(f)
    \/ \E fullname \in BOOLEAN, formats \in FormatOrders :
          licenses_list_call(fullname, formats)
    \/ \E fullname \in BOOLEAN, formats \in FormatOrders :
          license_get_call(fullname, formats)

SpecFullname == Init /\ [][NextFullname]_vars

\* GenMakeConfig after its construction without an authors argument.
InitGenMake ==
    /\ pw \in GenMakePwInputs
    /\ files = {}
    /\ config = GenMakeConfig_authors_set([authors |-> None], PyNone, pw).cfg
    /\ pc = "ready"
    /\ kwargs = <<>>
    /\ calls = <<>>
    /\ last = [op |-> "__init__", err |-> ""]
    /\ ret = NoValue
    /\ drive = None
    /\ tty = None
    /\ man = None

NextGenMake ==
    \/ \E a \in GenMakeSetInputs : GenMakeConfig_authors_set_call(a)
    \/ \E a \in GenMakeElemInputs : GenMakeConfig_author_add_call(a)
    \/ \E a \in GenMakeElemInputs : GenMakeConfig_author_discard_call(a)

SpecGenMake == InitGenMake /\ [][NextGenMake]_vars

\* The constructor, from the entry of its loop.
InitNew ==
    /\ pw \in PwInputs
    /\ files \in {STOCK_FILES \cup u :
                    u \in SUBSET {f \in FileInputs : f.dir = user_license}}
                 \cup {STOCK_FILES \ FileInputs}
    /\ config = fromkeys
    /\ pc = "init"
    /\ kwargs \in {setdefault(kw, "directories", PyList(<<PyStr(<<"a">>)>>)) :
                     kw \in KwargsInputs}
    /\ calls = <<>>
    /\ last = [op |-> "__init__", err |-> ""]
    /\ ret = NoValue
    /\ drive = None
    /\ tty = None
    /\ man = None

SpecNew == InitNew /\ [][init_round]_vars

-----------------------------------------------------------------------------
(* driver.skaff_drive (src/skaff/driver.py).  The variable drive holds the
   run: dirs, the directories still to come; cur, the one in hand; tree, the
   directories on disk; log, what the run has done so far, in order; key, the
   local variable of _conf_doc_prompt; alarm, the seconds left on the alarm;
   waited, the seconds since the prompt appeared; presses, the keys read at
   this prompt that did not end it. *)

\* timeout(5): the seconds the alarm is armed with for each getkey().
PromptSeconds == 5

\* Largest number of keys other than 'c', 'a' and 'k' pressed at one prompt.
MaxKeys == 2

\* key.lower()
lower(key) ==
    CASE key = "A" -> "a"
      [] key = "K" -> "k"
      [] key = "C" -> "c"
      [] OTHER -> key

\* The name a path has on disk: the path without a trailing separator.
normpath(path) ==
    IF endswith_sep(path) THEN SubSeq(path, 1, Len(path) - 1) ELSE path

\* os.path.basename(path)
basename(path) ==
    LET seps == {i \in 1..Len(path) : path[i] = sep}
    IN  IF seps = {} THEN path
        ELSE SubSeq(path, (CHOOSE i \in seps : \A j \in seps : j <= i) + 1,
                    Len(path))

\* The directories above path, which os.makedirs creates when they are missing.
parents(path) ==
    {SubSeq(path, 1, i - 1) :
        i \in {k \in 2..Len(normpath(path)) : path[k] = sep}}

Event(ev, dir, path, name) ==
    [ev |-> ev, dir |-> dir, path |-> path, name |-> name]

\* os.makedirs(path, exist_ok=True)
makedirs_exist_ok(d, path) ==
    [d |-> [d EXCEPT !.tree = @ \cup parents(path) \cup {normpath(path)},
                     !.log = Append(@, Event("makedirs", d.cur, path, ""))],
     err |-> ""]

\* os.makedirs(path)
makedirs(d, path) ==
    IF normpath(path) \in d.tree THEN [d |-> d, err |-> "FileExistsError"]
    ELSE [d |-> [d EXCEPT !.tree = @ \cup parents(path) \cup {normpath(path)},
                          !.log = Append(@, Event("makedirs", d.cur, path, ""))],
          err |-> ""]

RECURSIVE makedirs_each(_, _)
makedirs_each(d, paths) ==
    IF Len(paths) = 0 THEN [d |-> d, err |-> ""]
    ELSE LET made == makedirs(d, Head(paths))
         IN  IF made.err # "" THEN made
             ELSE makedirs_each(made.d, Tail(paths))

\* The directories skaff_drive makes for base_dir, in the order it makes them.
tree_paths(cfg, base_dir) ==
    LET sub_dirs == subdirectories_get(cfg)
    IN  <<base_dir>>
        \o [i \in 1..Len(sub_dirs) |-> base_dir \o sub_dirs[i]]
        \o << base_dir \o <<"i", "n", "c", "l", "u", "d", "e", sep>>
                       \o basename(SubSeq(base_dir, 1, Len(base_dir) - 1)) >>

_arguments_check(d, cfg, directory) ==
    IF normpath(directory) \notin d.tree THEN "ValueError"
    ELSE IF ~In(directory, directories_get(cfg)) THEN "ValueError"
    ELSE ""

\* Files written below the directory in hand, in order.
writes(d, names) ==
    [d EXCEPT !.log = @ \o [i \in 1..Len(names) |->
                                Event("write", d.cur, <<>>, names[i])]]

\* _conf_edit(directory, [conf_file]): the editor is run on the file.
_conf_edit(d, conf_file) ==
    [d EXCEPT !.log = Append(@, Event("edit", d.cur, <<>>, conf_file))]

\* _conf_spawn that runs the editor whatever quiet is.
_conf_spawn_edit_always(d, cfg) ==
    _conf_edit(writes(d, <<"CMakeLists.txt", ".editorconfig", ".gdbinit",
                           ".gitattributes", ".gitignore", ".travis.yml">>),
               "CMakeLists.txt")

_conf_spawn(d, cfg) ==
    LET quiet == quiet_get(cfg)[1]
        in_src == IF normpath(d.cur \o <<"s", "r", "c">>) \in d.tree
                  THEN <<"src/CMakeLists.txt", "src/main">>
                  ELSE <<>>
        spawned == writes(d, <<"CMakeLists.txt">> \o in_src
                             \o <<".editorconfig", ".gdbinit",
                                  ".gitattributes", ".gitignore",
                                  ".travis.yml">>)
    IN  IF ~quiet THEN _conf_edit(spawned, "CMakeLists.txt") ELSE spawned

_doxyfile_generate(d, cfg) ==
    LET quiet == quiet_get(cfg)[1]
        generated == writes(d, <<"Doxyfile">>)
    IN  IF ~quiet THEN _conf_edit(generated, "Doxyfile") ELSE generated

\* _doc_create(directory, config) on the run: the license text is opened
\* before README.md is.
doc_create(d, cfg, fs) ==
    IF _arguments_check(d, cfg, d.cur) # ""
    THEN [d |-> d, err |-> _arguments_check(d, cfg, d.cur)]
    ELSE IF _doc_create(cfg, fs).err # ""
    THEN [d |-> d, err |-> _doc_create(cfg, fs).err]
    ELSE [d |-> _doxyfile_generate(writes(d, <<"README.md", "CHANGELOG.md">>),
                                   cfg),
          err |-> ""]

\* _license_sign(directory, config) on the run.
license_sign(d, cfg, fs) ==
    IF _arguments_check(d, cfg, d.cur) # ""
    THEN [d |-> d, err |-> _arguments_check(d, cfg, d.cur)]
    ELSE IF _license_sign(cfg, fs).err # ""
    THEN [d |-> d, err |-> _license_sign(cfg, fs).err]
    ELSE [d |-> writes(d, <<"LICENSE.txt">>), err |-> ""]

\* The end of _conf_doc_prompt with the revert done for 'a' as well.
revert_quiet_any(cfg, key) ==
    IF lower(key) \in {"a", "k"} THEN quiet_set(cfg, PyBool(FALSE)).cfg ELSE cfg

\* The end of _conf_doc_prompt with no revert.
revert_quiet_never(cfg, key) == cfg

\* The end of _conf_doc_prompt: if "k" == key.lower(): config.quiet_set(False)
revert_quiet(cfg, key) ==
    IF lower(key) = "k" THEN quiet_set(cfg, PyBool(FALSE)).cfg ELSE cfg

\* The end of the for loop's body: it is left for the next directory, or the
\* loop is over.
loop_next(d) == IF Len(d.dirs) = 0 THEN "done" ELSE "loop"

\* _conf_doc_prompt from the end of the prompt.
prompt_over(d, cfg, fs) ==
    LET spawned == _conf_spawn(d, cfg)
        doc == doc_create(spawned, cfg, fs)
    IN  IF doc.err # ""
        THEN [d |-> doc.d, cfg |-> cfg, err |-> doc.err, pc |-> "failed"]
        ELSE [d |-> doc.d, cfg |-> revert_quiet(cfg, d.key), err |-> "",
              pc |-> loop_next(d)]

\* _conf_doc_prompt up to the first getkey(), or to its end when quiet is set.
_conf_doc_prompt(d, cfg, fs) ==
    IF _arguments_check(d, cfg, d.cur) # ""
    THEN [d |-> d, cfg |-> cfg, err |-> _arguments_check(d, cfg, d.cur),
          pc |-> "failed"]
    ELSE IF ~quiet_get(cfg)[1]
    THEN [d |-> [d EXCEPT !.log = Append(@, Event("prompt", d.cur, <<>>, "")),
                          !.alarm = PromptSeconds],
          cfg |-> cfg, err |-> "", pc |-> "prompt"]
    ELSE prompt_over(d, cfg, fs)

\* The body of the for loop of skaff_drive for the next directory.
skaff_drive(d0, cfg, fs) ==
    LET base_dir == Head(d0.dirs)
        d == [d0 EXCEPT !.dirs = Tail(@), !.cur = base_dir, !.key = "",
                        !.alarm = 0, !.waited = 0, !.presses = 0]
        made == makedirs_each(d, tree_paths(cfg, base_dir))
        signed == license_sign(made.d, cfg, fs)
    IN  IF made.err # ""
        THEN [d |-> made.d, cfg |-> cfg, err |-> made.err, pc |-> "failed"]
        ELSE IF signed.err # ""
        THEN [d |-> signed.d, cfg |-> cfg, err |-> signed.err, pc |-> "failed"]
        ELSE _conf_doc_prompt(signed.d, cfg, fs)

\* Directories, subdirectories and quiet of the configuration that is driven.
DriveDirectoriesInputs ==
    { PyList(<<PyStr(<<"a">>)>>),
      PyList(<<PyStr(<<"a">>), PyStr(<<"b">>)>>),
      PyList(<<PyStr(<<"a">>), PyStr(<<"a", sep, "s", "r", "c">>)>>) }

DriveSubdirectoriesInputs == {PyNone, PyList(<<PyStr(<<"s", "r", "c">>)>>)}

DriveConfigs ==
    { quiet_set(
          subdirectories_set(directories_set(Constructed.cfg, ds).cfg, ss).cfg,
          q).cfg :
        ds \in DriveDirectoriesInputs, ss \in DriveSubdirectoriesInputs,
        q \in {PyBool(TRUE), PyBool(FALSE)} }

\* Project roots that are on disk before the run.
DriveTreeInputs == {{}, {<<"a">>}, {<<"b">>}}

\* The stock licenses, whole or with one text missing.
DriveFileInputs ==
    { STOCK_FILES,
      STOCK_FILES \ {[dir |-> system_license_path, name |-> bsd2, ext |-> ".md"]} }

\* Keys getkey() returns.
KeyInputs == {"c", "a", "k", "x", "A"}

\* A step of the run: the configuration, the run and its position change.
Drive(r) ==
    /\ config' = r.cfg
    /\ drive' = r.d
    /\ pc' = r.pc
    /\ last' = [op |-> "skaff_drive", err |-> r.err]
    /\ UNCHANGED <<files, kwargs, calls, pw, ret, tty, man>>

\* The for loop takes the next directory.
skaff_drive_step ==
    /\ pc = "loop"
    /\ Drive(skaff_drive(drive, config, files))

\* key = timeout(5)(getkey)() returns a key: 'a' and 'k' set quiet and break,
\* 'c' ends the while loop, any other key arms the alarm anew.
getkey_returns(key) ==
    /\ pc = "prompt"
    /\ LET d == [drive EXCEPT !.key = key,
                              !.log = Append(@, Event("key", drive.cur, <<>>, key))]
       IN  IF lower(key) \in {"a", "k"}
           THEN Drive(prompt_over(d, quiet_set(config, PyBool(TRUE)).cfg, files))
           ELSE IF lower(key) = "c"
           THEN Drive(prompt_over(d, config, files))
           ELSE /\ drive.presses < MaxKeys
                /\ Drive([d |-> [d EXCEPT !.alarm = PromptSeconds,
                                          !.presses = @ + 1],
                          cfg |-> config, err |-> "", pc |-> "prompt"])

\* A second passes while getkey() waits.
tick ==
    /\ pc = "prompt"
    /\ drive.alarm > 0
    /\ drive' = [drive EXCEPT !.alarm = @ - 1, !.waited = @ + 1]
    /\ UNCHANGED <<config, files, pc, kwargs, calls, last, pw, ret, tty, man>>

\* The alarm goes off: TimeOutError leaves the while loop, key stays as it was.
getkey_times_out ==
    /\ pc = "prompt"
    /\ drive.alarm = 0
    /\ Drive(prompt_over(
           [drive EXCEPT !.log = Append(@, Event("timeout", drive.cur, <<>>, ""))],
           config, files))

InitDrive ==
    /\ pw = [pw_gecos |-> <<"a">>, pw_name |-> <<"b">>]
    /\ files \in DriveFileInputs
    /\ config \in DriveConfigs
    /\ pc = "loop"
    /\ kwargs = <<>>
    /\ calls = METHODS
    /\ last = [op |-> "__init__", err |-> ""]
    /\ ret = NoValue
    /\ \E tree \in DriveTreeInputs :
           drive = [dirs |-> directories_get(config), cur |-> <<>>,
                    tree |-> tree, log |-> <<>>, key |-> "", alarm |-> 0,
                    waited |-> 0, presses |-> 0]
    /\ tty = None
    /\ man = None

NextDrive ==
    \/ skaff_drive_step
    \/ \E key \in KeyInputs : getkey_returns(key)
    \/ tick
    \/ getkey_times_out

SpecDrive == InitDrive /\ [][NextDrive]_vars

-----------------------------------------------------------------------------
(* clitools.timeout(5)(getkey)() (src/skaff/clitools.py).  The variable tty
   holds stdin and the call: attrs and flags, the terminal attributes and the
   file-status flags of stdin; attrs_save and flags_save, the locals of getkey
   (<<>> until assigned); ret, the key read; alarm, the seconds left on the
   alarm, and armed, whether it is set; exc, the exception on its way out.
   pc is the statement that runs next.  Python runs the handler of SIGALRM
   between two statements or in place of a blocked read, so TimeOutError is
   raised at the position the call has reached when the alarm expires. *)

\* Terminal attributes, as the set of the mode bits that are on.
COOKED == {"ICRNL", "IXON", "OPOST", "ECHO", "ICANON", "ISIG", "CS8"}

\* attrs with the bits cleared and set that getkey clears and sets.
raw(attrs) == (attrs \ {"ICRNL", "IXON", "OPOST", "ECHO", "ICANON", "ISIG"})
                  \cup {"CS8"}

\* The statements of getkey that lie inside its try ... finally.
GETKEY_TRY == {"read"}

\* The statements of getkey that lie outside its try ... finally, and the
\* statements of its finally block.
GETKEY_UNGUARDED ==
    {"F_GETFL", "tcgetattr", "tcsetattr_raw", "F_SETFL", "try",
     "restore_attrs", "restore_flags", "return"}

\* One statement of the call has run.
Key(next_pc, t) ==
    /\ pc' = next_pc
    /\ tty' = t
    /\ UNCHANGED <<config, files, kwargs, calls, last, pw, ret, drive, man>>

\* wrapper: signal.signal(SIGALRM, _timeout_handle); signal.alarm(seconds)
timeout_wrapper ==
    /\ pc = "call"
    /\ Key("F_GETFL", [tty EXCEPT !.alarm = PromptSeconds, !.armed = TRUE,
                                  !.attrs_save = None, !.flags_save = None,
                                  !.ret = "", !.exc = ""])

\* flags_save = fcntl.fcntl(fd, fcntl.F_GETFL)
getkey_F_GETFL ==
    /\ pc = "F_GETFL"
    /\ Key("tcgetattr", [tty EXCEPT !.flags_save = Some(tty.flags)])

\* attrs_save = termios.tcgetattr(fd)
getkey_tcgetattr ==
    /\ pc = "tcgetattr"
    /\ Key("tcsetattr_raw", [tty EXCEPT !.attrs_save = Some(tty.attrs)])

\* termios.tcsetattr(fd, termios.TCSANOW, attrs)
getkey_tcsetattr_raw ==
    /\ pc = "tcsetattr_raw"
    /\ Key("F_SETFL", [tty EXCEPT !.attrs = raw(tty.attrs_save[1])])

\* fcntl.fcntl(fd, fcntl.F_SETFL, flags_save & ~os.O_NONBLOCK)
getkey_F_SETFL ==
    /\ pc = "F_SETFL"
    /\ Key("try", [tty EXCEPT !.flags = tty.flags_save[1] \ {"O_NONBLOCK"}])

\* try: the read is about to start.
getkey_try ==
    /\ pc = "try"
    /\ Key("read", tty)

\* ret = sys.stdin.read(1) returns a key.
getkey_read(key) ==
    /\ pc = "read"
    /\ Key("restore_attrs", [tty EXCEPT !.ret = key])

\* finally: termios.tcsetattr(fd, termios.TCSAFLUSH, attrs_save)
getkey_restore_attrs ==
    /\ pc = "restore_attrs"
    /\ Key("restore_flags", [tty EXCEPT !.attrs = tty.attrs_save[1]])

\* finally: fcntl.fcntl(fd, fcntl.F_SETFL, flags_save); an exception that the
\* read raised goes on to the caller.
getkey_restore_flags ==
    /\ pc = "restore_flags"
    /\ Key(IF tty.exc # "" THEN "alarm_off" ELSE "return",
           [tty EXCEPT !.flags = tty.flags_save[1]])

\* return ret
getkey_return ==
    /\ pc = "return"
    /\ Key("alarm_off", tty)

\* wrapper, finally: signal.alarm(0); then the result is returned or the
\* exception goes on to the caller.
timeout_alarm_off ==
    /\ pc = "alarm_off"
    /\ pc' = "exit"
    /\ tty' = [tty EXCEPT !.armed = FALSE, !.alarm = 0]
    /\ last' = [op |-> "getkey", err |-> tty.exc]
    /\ UNCHANGED <<config, files, kwargs, calls, pw, ret, drive, man>>

\* A second passes while the alarm is set.
alarm_tick ==
    /\ tty.armed
    /\ tty.alarm > 0
    /\ Key(pc, [tty EXCEPT !.alarm = @ - 1])

\* The alarm expires: _timeout_handle raises TimeOutError where the call is.
\* Inside the try of getkey the finally block runs next; anywhere else in
\* getkey the exception leaves getkey at once, for the finally of wrapper;
\* in the finally of wrapper it leaves wrapper.
SIGALRM ==
    /\ tty.armed
    /\ tty.alarm = 0
    /\ IF pc \in GETKEY_TRY
       THEN Key("restore_attrs", [tty EXCEPT !.armed = FALSE,
                                             !.exc = "TimeOutError"])
       ELSE IF pc \in GETKEY_UNGUARDED
       THEN Key("alarm_off", [tty EXCEPT !.armed = FALSE,
                                         !.exc = "TimeOutError"])
       ELSE /\ pc = "alarm_off"
            /\ pc' = "exit"
            /\ tty' = [tty EXCEPT !.armed = FALSE, !.exc = "TimeOutError"]
            /\ last' = [op |-> "getkey", err |-> "TimeOutError"]
            /\ UNCHANGED <<config, files, kwargs, calls, pw, ret, drive, man>>

\* _conf_doc_prompt calls timeout(5)(getkey)() again.
getkey_again ==
    /\ pc = "exit"
    /\ Key("call", tty)

InitKey ==
    /\ pw = [pw_gecos |-> <<"a">>, pw_name |-> <<"b">>]
    /\ files = STOCK_FILES
    /\ config = Constructed.cfg
    /\ pc = "call"
    /\ kwargs = <<>>
    /\ calls = METHODS
    /\ last = [op |-> "__init__", err |-> ""]
    /\ ret = NoValue
    /\ drive = None
    /\ \E flags \in {{}, {"O_NONBLOCK"}} :
           tty = [attrs |-> COOKED, flags |-> flags, attrs_save |-> None,
                  flags_save |-> None, ret |-> "", alarm |-> 0,
                  armed |-> FALSE, exc |-> ""]
    /\ man = None

NextKey ==
    \/ timeout_wrapper
    \/ getkey_F_GETFL
    \/ getkey_tcgetattr
    \/ getkey_tcsetattr_raw
    \/ getkey_F_SETFL
    \/ getkey_try
    \/ \E key \in KeyInputs : getkey_read(key)
    \/ getkey_restore_attrs
    \/ getkey_restore_flags
    \/ getkey_return
    \/ timeout_alarm_off
    \/ alarm_tick
    \/ SIGALRM
    \/ getkey_again

SpecKey == InitKey /\ [][NextKey]_vars

-----------------------------------------------------------------------------
(* manualtools (src/skaff/manualtools.py).  The variable man holds the disk:
   dirs, the directories that exist, and writable, those of them the process
   may write to; sources, the manual pages that exist; installed, the gzipped
   pages written so far; and of the last manuals_install: args, its
   arguments, written, the files it wrote, in order, and recorded, the names
   it appended to the --record file. *)

\* os.path.splitext(path)[-1]: from the last dot of the base name on, unless
\* that dot only follows dots.
splitext(path) ==
    LET name == basename(path)
        dots == {i \in 1..Len(name) : name[i] = "."}
    IN  IF dots = {} THEN <<>>
        ELSE LET i == CHOOSE k \in dots : \A j \in dots : j <= k
             IN  IF \A j \in 1..i : name[j] = "." THEN <<>>
                 ELSE SubSeq(name, i, Len(name))

\* manual_check(manual), for a string
manual_check(manual) ==
    LET file_extension == splitext(manual)
    IN  /\ Len(file_extension) = 2
        /\ file_extension[Len(file_extension)]
               \in {"1", "2", "3", "4", "5", "6", "7", "8", "9"}

\* _manuals_copy that always writes manual to directory itself.
target_manpage_flat(m, directory, manual) ==
    directory \o basename(manual) \o <<".", "g", "z">>

\* The file _manuals_copy writes manual to.
target_manpage(m, directory, manual) ==
    LET path_postfix == splitext(manual)[Len(splitext(manual))]
        man_subdir == directory \o <<"m", "a", "n", path_postfix, sep>>
    IN  IF /\ normpath(man_subdir) \in m.dirs
           /\ normpath(man_subdir) \in m.writable
        THEN man_subdir \o basename(manual) \o <<".", "g", "z">>
        ELSE directory \o basename(manual) \o <<".", "g", "z">>

\* The directory gzip.open creates path in.
dirname(path) == SubSeq(path, 1, Len(path) - Len(basename(path)))

RECURSIVE _manuals_copy(_, _, _, _)
_manuals_copy(m, directory, log, manuals) ==
    IF Len(manuals) = 0 THEN [man |-> m, err |-> ""]
    ELSE LET manual == Head(manuals)
         IN  IF ~manual_check(manual) THEN [man |-> m, err |-> "TypeError"]
             ELSE IF manual \notin m.sources
             THEN [man |-> m, err |-> "FileNotFoundError"]
             ELSE LET target == target_manpage(m, directory, manual)
                  IN  IF normpath(dirname(target)) \notin m.writable
                      THEN [man |-> m, err |-> "PermissionError"]
                      ELSE _manuals_copy(
                               [m EXCEPT !.installed = @ \cup {target},
                                         !.written = Append(@, target),
                                         !.recorded = IF log
                                                      THEN Append(@, target)
                                                      ELSE @],
                               directory, log, Tail(manuals))

\* manuals_install(directory, rebuild, *manuals); record: "--record" is in
\* sys.argv; mandb: the return code of the mandb program.
manuals_install(m0, directory0, rebuild, manuals, record, mandb) ==
    LET m == [m0 EXCEPT !.args = [directory |-> directory0,
                                  manuals |-> manuals],
                        !.written = <<>>, !.recorded = <<>>]
        directory == IF endswith_sep(directory0) THEN directory0
                     ELSE directory0 \o <<sep>>
    IN  IF Len(manuals) = 0 THEN [man |-> m, err |-> ""]
        ELSE IF normpath(directory) \notin m.dirs
        THEN [man |-> m, err |-> "NotADirectoryError"]
        ELSE IF normpath(directory) \notin m.writable
        THEN [man |-> m, err |-> "PermissionError"]
        ELSE LET copied == _manuals_copy(m, directory, record, manuals)
             IN  IF copied.err # "" THEN copied
                 ELSE IF rebuild /\ mandb # 0
                 THEN [man |-> copied.man, err |-> "RuntimeError"]
                 ELSE copied

\* str.strip(): white space goes from both ends.
RECURSIVE strip(_)
strip(s) ==
    IF Len(s) = 0 THEN s
    ELSE IF Head(s) \in {" ", "\n", "\t"} THEN strip(Tail(s))
    ELSE IF s[Len(s)] \in {" ", "\n", "\t"} THEN strip(SubSeq(s, 1, Len(s) - 1))
    ELSE s

\* str.split(os.pathsep)
RECURSIVE split(_)
split(s) ==
    LET colons == {i \in 1..Len(s) : s[i] = ":"}
    IN  IF colons = {} THEN <<s>>
        ELSE LET i == CHOOSE k \in colons : \A j \in colons : k <= j
             IN  <<SubSeq(s, 1, i - 1)>> \o split(SubSeq(s, i + 1, Len(s)))

\* dircmp(candidate, tmpdir).left_only is not empty: the directory holds a
\* subdirectory or a file.
left_only(m, candidate) ==
    \/ \E dir \in m.dirs : candidate \in parents(dir \o <<sep>>) /\ dir # candidate
    \/ \E file \in m.installed : normpath(dirname(file)) = candidate

\* manpath_select(select); output is what the manpath program prints.
manpath_select(m, output, select) ==
    LET paths == split(strip(output))
        missing(path) == ~endswith_sep(path)
        rich(path) == left_only(m, normpath(path))
        candidates == SelectSeq(paths, rich)
        appended == SelectSeq(paths, missing)
    IN  IF select /\ \E i \in 1..Len(paths) :
                         /\ normpath(paths[i]) \notin m.dirs
                         /\ \A j \in 1..(i - 1) :
                                ~left_only(m, normpath(paths[j]))
        THEN [val |-> PyNone, err |-> "FileNotFoundError"]
        ELSE IF Len(paths) = 0
        THEN [val |-> PyNone, err |-> "RuntimeError"]
        ELSE IF select /\ Len(candidates) = 0
        THEN [val |-> PyNone, err |-> "RuntimeError"]
        ELSE IF select /\ Len(Head(candidates)) = 0
        THEN [val |-> PyNone, err |-> "RuntimeError"]
        ELSE IF select
        THEN [val |-> PyStr(IF endswith_sep(Head(candidates))
                            THEN Head(candidates)
                            ELSE Head(candidates) \o <<sep>>),
              err |-> ""]
        ELSE [val |-> PyList([i \in 1..Len(appended) |->
                                 PyStr(appended[i] \o <<sep>>)]),
              err |-> ""]

\* The manual directory, and its section subdirectories.
MAN == <<"m">>

MAN1 == <<"m", sep, "m", "a", "n", "1">>

MAN2 == <<"m", sep, "m", "a", "n", "2">>

\* Manual pages handed to manuals_install.
ManualsInputs ==
    { <<>>,
      << <<"x", ".", "1">> >>,
      << <<"x", ".", "1">>, <<"y", ".", "2">> >>,
      << <<"d", sep, "x", ".", "1">> >>,
      << <<"y", ".", "2">>, <<"x", ".", "0">> >>,
      << <<"x", ".", "1", "1">> >> }

\* The directory handed to manuals_install.
ManDirectoryInputs == {<<"m">>, <<"m", sep>>}

\* rebuild, and the return code of mandb when it is run.
RebuildInputs ==
    { [rebuild |-> FALSE, mandb |-> 0], [rebuild |-> TRUE, mandb |-> 0],
      [rebuild |-> TRUE, mandb |-> 1] }

\* What the manpath program prints.
ManpathInputs ==
    { <<"m", ":", "n", "\n">>,
      <<"m", sep, ":", "n", "\n">>,
      <<"m", sep, "\n">>,
      <<"m", sep, "m", "a", "n", "1", ":", "m", "\n">>,
      <<"\n">> }

\* A step of manuals_install.
manuals_install_call(directory, rebuild, manuals, record, mandb) ==
    /\ pc = "ready"
    /\ LET r == manuals_install(man, directory, rebuild, manuals, record, mandb)
       IN  /\ man' = r.man
           /\ last' = [op |-> "manuals_install", err |-> r.err]
    /\ ret' = NoValue
    /\ UNCHANGED <<config, files, pc, kwargs, calls, pw, drive, tty>>

manpath_select_call(output, select) ==
    /\ pc = "ready"
    /\ Yield("manpath_select", manpath_select(man, output, select), FALSE)

\* Between calls a directory is made or removed, or its permission changes.
man_mkdir(dir) ==
    /\ pc = "ready"
    /\ dir \notin man.dirs
    /\ parents(dir \o <<sep>>) \subseteq man.dirs
    /\ man' = [man EXCEPT !.dirs = @ \cup {dir}, !.writable = @ \cup {dir}]
    /\ UNCHANGED <<config, files, pc, kwargs, calls, last, pw, ret, drive, tty>>

man_chmod(dir) ==
    /\ pc = "ready"
    /\ dir \in man.dirs
    /\ man' = [man EXCEPT !.writable = IF dir \in @ THEN @ \ {dir}
                                       ELSE @ \cup {dir}]
    /\ UNCHANGED <<config, files, pc, kwargs, calls, last, pw, ret, drive, tty>>

InitManual ==
    /\ pw = [pw_gecos |-> <<"a">>, pw_name |-> <<"b">>]
    /\ files = STOCK_FILES
    /\ config = Constructed.cfg
    /\ pc = "ready"
    /\ kwargs = <<>>
    /\ calls = METHODS
    /\ last = [op |-> "__init__", err |-> ""]
    /\ ret = NoValue
    /\ drive = None
    /\ tty = None
    /\ \E sources \in { { <<"x", ".", "1">>, <<"y", ".", "2">>,
                          <<"d", sep, "x", ".", "1">>, <<"x", ".", "0">>,
                          <<"x", ".", "1", "1">> },
                        { <<"x", ".", "1">> } } :
           man = [dirs |-> {}, writable |-> {}, sources |-> sources,
                  installed |-> {}, args |-> None, written |-> <<>>,
                  recorded |-> <<>>]

\* manuals_install on a disk that changes between the calls.
NextManual ==
    \/ \E directory \in ManDirectoryInputs, re \in RebuildInputs,
          manuals \in ManualsInputs, record \in BOOLEAN :
           manuals_install_call(directory, re.rebuild, manuals, record,
                                re.mandb)
    \/ \E dir \in {MAN, MAN1, MAN2} : man_mkdir(dir)
    \/ \E dir \in {MAN, MAN1, MAN2} : man_chmod(dir)

SpecManual == InitManual /\ [][NextManual]_vars

\* manpath_select on a disk that changes between the calls.
NextManpath ==
    \/ \E output \in ManpathInputs, select \in BOOLEAN :
           manpath_select_call(output, select)
    \/ \E dir \in {MAN, MAN1, MAN2} : man_mkdir(dir)
    \/ \E dir \in {MAN, MAN1, MAN2} : man_chmod(dir)

SpecManpath == InitManual /\ [][NextManpath]_vars

-----------------------------------------------------------------------------
(* Claims *)

\* A step that is a call of mutator op: the mutators never touch the files,
\* and a file that comes or goes is no call.
IsCall(op) == last'.op = op /\ files' = files

\* A string the add / discard mutators accept.
Valid(a) == a.type = "str" /\ Len(a.v) > 0 /\ isprintable(a.v)

\* s with the path separator appended if missing.
Normalized(s) == IF s[Len(s)] = sep THEN s ELSE Append(s, sep)

\* C1: a rejected authors_set / directories_set / subdirectories_set call
\* (TypeError or ValueError) leaves the previous contents of that field
\* untouched: the following *_get() returns what it returned before.
C1_RejectedSetKeepsField ==
    [][last'.err \in {"TypeError", "ValueError"} =>
         /\ IsCall("authors_set") => authors_get(config') = authors_get(config)
         /\ IsCall("directories_set") =>
                directories_get(config') = directories_get(config)
         /\ IsCall("subdirectories_set") =>
                subdirectories_get(config') = subdirectories_get(config)]_vars

\* C2: after construction the authors, directories and subdirectories sets
\* are non-empty in every reachable state.
C2_SetsNeverEmpty ==
    pc = "ready" =>
        /\ authors_get(config) # <<>>
        /\ directories_get(config) # <<>>
        /\ subdirectories_get(config) # <<>>

\* C3: every element stored in directories or subdirectories ends with the
\* path separator in every reachable state.
C3_StoredEndWithSep ==
    pc = "ready" =>
        /\ \A i \in 1..Len(directories_get(config)) :
               endswith_sep(directories_get(config)[i])
        /\ \A i \in 1..Len(subdirectories_get(config)) :
               endswith_sep(subdirectories_get(config)[i])
\* C4: in every reachable state after construction language_get() is a
\* member of languages_list() and license_get() a member of licenses_list().
C4_ChoicesAreListed ==
    pc = "ready" =>
        /\ In(language_get(config)[1], languages_list(config))
        /\ In(license_get(config)[1], licenses_list(config))

\* C5: when licenses_probe() raises FileNotFoundError (a license of the user
\* license path has only one of its two files), licenses_list() afterwards
\* returns what it returned before the call.
C5_FailedProbeKeepsLicenses ==
    [][(IsCall("licenses_probe") /\ last'.err = "FileNotFoundError") =>
           licenses_list(config') = licenses_list(config)]_vars
\* The explicit choices among the inputs of language_set / license_set.
Explicit(inputs) == {a \in inputs : a.type # "NoneType"}

\* C6 as stated: language_set(x) / license_set(x) with an explicit x succeeds
\* and stores x if and only if x is a member of languages_list() /
\* licenses_list() as it stands when the call is made (otherwise ValueError
\* and the stored value is unchanged); language_set(None) and
\* license_set(None) always succeed and store c and bsd2.
C6_SetIffListedBeforeCall ==
    [][/\ IsCall("language_set") =>
            /\ \A a \in Explicit(LanguageInputs) : language_set_call(a) =>
                  IF In(a.v, languages_list(config))
                  THEN last'.err = "" /\ language_get(config') = <<a.v>>
                  ELSE /\ last'.err = "ValueError"
                       /\ language_get(config') = language_get(config)
            /\ language_set_call(PyNone) =>
                  last'.err = "" /\ language_get(config') = << <<"c">> >>
       /\ IsCall("license_set") =>
            /\ \A a \in Explicit(LicenseInputs) : license_set_call(a) =>
                  IF In(a.v, licenses_list(config))
                  THEN last'.err = "" /\ license_get(config') = <<a.v>>
                  ELSE /\ last'.err = "ValueError"
                       /\ license_get(config') = license_get(config)
            /\ license_set_call(PyNone) =>
                  last'.err = "" /\ license_get(config') = <<bsd2>>]_vars

\* The user license path holds, for each license name, both files or none.
UserLicensesPaired ==
    \A f \in files : f.dir = config.paths[1].license =>
        \A e \in LICENSE_FORMATS : [f EXCEPT !.ext = e] \in files

\* The licenses a probe of the user license path recognises now: the stock
\* ones and those with a file of each format in the user license path.
LicensesOnDisk ==
    LICENSES \cup
        {f.name : f \in {g \in files : g.dir = config.paths[1].license}}

\* C6 amended: language_set is as stated.  license_set first validates the
\* stock files and probes the user license path again: with a stock file
\* missing or a user license that has only one of its two files it raises
\* FileNotFoundError, for None too, and the stored license is unchanged;
\* otherwise an explicit x is stored if and only if x is a stock license or
\* has both files in the user license path at the time of the call, which is
\* licenses_list() as it stands after the call (otherwise ValueError and the
\* stored license is unchanged), and None stores bsd2.
C6_SetIffListedAfterProbe ==
    [][/\ IsCall("language_set") =>
            /\ \A a \in Explicit(LanguageInputs) : language_set_call(a) =>
                  IF In(a.v, languages_list(config))
                  THEN last'.err = "" /\ language_get(config') = <<a.v>>
                  ELSE /\ last'.err = "ValueError"
                       /\ language_get(config') = language_get(config)
            /\ language_set_call(PyNone) =>
                  last'.err = "" /\ language_get(config') = << <<"c">> >>
       /\ IsCall("license_set") => \A a \in LicenseInputs :
            license_set_call(a) =>
              IF ~(STOCK_FILES \subseteq files /\ UserLicensesPaired)
              THEN /\ last'.err = "FileNotFoundError"
                   /\ license_get(config') = license_get(config)
              ELSE IF a.type = "NoneType"
              THEN last'.err = "" /\ license_get(config') = <<bsd2>>
              ELSE IF a.v \in LicensesOnDisk
              THEN /\ last'.err = ""
                   /\ license_get(config') = <<a.v>>
                   /\ In(a.v, licenses_list(config'))
              ELSE /\ last'.err = "ValueError"
                   /\ license_get(config') = license_get(config)
                   /\ ~In(a.v, licenses_list(config'))]_vars

\* C6 witness: license_set stored a custom license that licenses_list() did
\* not hold before: zlib is chosen while the probed path holds its files.
C6_Witness ==
    /\ last = [op |-> "license_set", err |-> ""]
    /\ license_get(config) = <<zlib>>
    /\ In(zlib, licenses_list(config))
\* The constructor was given authors=[] and authors_set has just rejected it.
EmptyAuthorsRejected ==
    /\ HasKey(kwargs, "authors")
    /\ Lookup(kwargs, "authors") = PyList(<<>>)
    /\ pc = "failed"
    /\ last = [op |-> "authors_set", err |-> "ValueError"]

\* C7 as stated: constructing with authors=[] raises ValueError before any
\* field of the configuration is set.
C7_EmptyAuthorsBeforeAnyField == EmptyAuthorsRejected => config = fromkeys

\* C7 amended: constructing with authors=[] raises ValueError, when the
\* steps before authors succeed, after paths, licenses, subdirectories and
\* directories have been stored and before authors, language, license and
\* quiet are.
C7_EmptyAuthorsAfterDirectories ==
    /\ EmptyAuthorsRejected =>
           /\ config.paths # None
           /\ config.licenses # None
           /\ config.subdirectories # None
           /\ config.directories # None
           /\ config.authors = None
           /\ config.language = None
           /\ config.license = None
           /\ config.quiet = None
    /\ (/\ HasKey(kwargs, "authors")
        /\ Lookup(kwargs, "authors") = PyList(<<>>)
        /\ Len(calls) >= 6) => EmptyAuthorsRejected

C7_Witness == EmptyAuthorsRejected /\ Len(kwargs) = 2 /\ kwargs[1].key = "authors"

\* The order of the constructor's steps.
DependencyOrder ==
    <<"paths_set", "languages_probe", "licenses_probe", "subdirectories_set",
      "directories_set", "authors_set", "language_set", "license_set",
      "quiet_set">>

\* C8: the constructor calls the mutators in the fixed dependency order
\* paths, languages probe, licenses probe, subdirectories, directories,
\* authors, language, license, quiet, whatever the order of the keyword
\* arguments; language and license are validated only after the paths are
\* stored and the licenses probe has run.
C8_DependencyOrder ==
    /\ Len(calls) <= Len(DependencyOrder)
    /\ calls = SubSeq(DependencyOrder, 1, Len(calls))
    /\ \A i \in 1..Len(calls) : calls[i] \in {"language_set", "license_set"} =>
           /\ \E j \in 1..(i - 1) : calls[j] = "paths_set"
           /\ \E j \in 1..(i - 1) : calls[j] = "licenses_probe"
           /\ config.paths # None
           /\ config.licenses # None
    /\ pc = "ready" => Len(calls) = Len(DependencyOrder)

\* C8 witness: a construction that succeeded although license was given
\* before authors in the keyword arguments.
C8_Witness ==
    /\ pc = "ready"
    /\ Len(kwargs) >= 2
    /\ kwargs[1].key = "license"
    /\ kwargs[2].key = "authors"
    /\ license_get(config) = <<mit>>
\* The valid strings among the inputs of the add / discard mutators.
ValidInputs == {a \in ElemInputs : Valid(a)}

\* C9: for every non-empty printable string s, after author_add(s) /
\* directory_add(s) / subdirectory_add(s) the matching *_get() contains s
\* (with a trailing separator for directories and subdirectories) exactly
\* once, and an add(s) of a name already there does not change the number of
\* elements.
C9_AddOnce ==
    [][/\ IsCall("author_add") =>
            LET before == authors_get(config)
                after == authors_get(config')
            IN  \A a \in ValidInputs : author_add_call(a) =>
                  /\ last'.err = ""
                  /\ Count(after, a.v) = 1
                  /\ In(a.v, before) => Len(after) = Len(before)
       /\ IsCall("directory_add") =>
            LET before == directories_get(config)
                after == directories_get(config')
            IN  \A a \in ValidInputs : directory_add_call(a) =>
                  /\ last'.err = ""
                  /\ Count(after, Normalized(a.v)) = 1
                  /\ In(Normalized(a.v), before) => Len(after) = Len(before)
       /\ IsCall("subdirectory_add") =>
            LET before == subdirectories_get(config)
                after == subdirectories_get(config')
            IN  \A a \in ValidInputs : subdirectory_add_call(a) =>
                  /\ last'.err = ""
                  /\ Count(after, Normalized(a.v)) = 1
                  /\ In(Normalized(a.v), before) => Len(after) = Len(before)]_vars

\* C9 witness: directory_add has added a second directory, b, stored as b/.
C9_Witness ==
    /\ last = [op |-> "directory_add", err |-> ""]
    /\ directories_get(config) = << <<"a", "/">>, <<"b", "/">> >>

\* C10 as stated: for every valid string s that is not currently in the set,
\* author_discard(s) / directory_discard(s) / subdirectory_discard(s) raises
\* no error and leaves the whole configuration unchanged.
C10_DiscardAbsentAsGiven ==
    [][/\ IsCall("author_discard") => \A a \in ValidInputs :
            (author_discard_call(a) /\ ~In(a.v, authors_get(config))) =>
                last'.err = "" /\ config' = config
       /\ IsCall("directory_discard") => \A a \in ValidInputs :
            (directory_discard_call(a)
                /\ ~In(a.v, directories_get(config))) =>
                last'.err = "" /\ config' = config
       /\ IsCall("subdirectory_discard") => \A a \in ValidInputs :
            (subdirectory_discard_call(a)
                /\ ~In(a.v, subdirectories_get(config))) =>
                last'.err = "" /\ config' = config]_vars

\* C10 amended: for every valid string s whose stored form (s itself for
\* authors, s with the path separator appended if missing for directories
\* and subdirectories) is not currently in the set, the discard raises no
\* error and leaves the whole configuration unchanged.
C10_DiscardAbsentNormalized ==
    [][/\ IsCall("author_discard") => \A a \in ValidInputs :
            (author_discard_call(a) /\ ~In(a.v, authors_get(config))) =>
                last'.err = "" /\ config' = config
       /\ IsCall("directory_discard") => \A a \in ValidInputs :
            (directory_discard_call(a)
                /\ ~In(Normalized(a.v), directories_get(config))) =>
                last'.err = "" /\ config' = config
       /\ IsCall("subdirectory_discard") => \A a \in ValidInputs :
            (subdirectory_discard_call(a)
                /\ ~In(Normalized(a.v), subdirectories_get(config))) =>
                last'.err = "" /\ config' = config]_vars

\* C10 witness: a directory_discard of an absent name has returned, the
\* directory of the construction still being the only one.
C10_Witness ==
    /\ last = [op |-> "directory_discard", err |-> ""]
    /\ directories_get(config) = << <<"a", "/">> >>

\* Arguments of the wrong shape: a bare string, or a value that is not iterable.
ShapeErrors == {a \in SetInputs : a.type \in {"str", "function"}}

\* C11: authors_set, directories_set and subdirectories_set given a bare
\* string or a non-iterable raise TypeError, given an empty collection raise
\* ValueError, and in both cases leave the configuration as it was: no
\* character of the string is stored and the field is not reset.
C11_ShapeErrorsBeforeMutation ==
    [][/\ IsCall("authors_set") =>
            /\ \A a \in ShapeErrors : authors_set_call(a) =>
                  last'.err = "TypeError" /\ config' = config
            /\ authors_set_call(PyList(<<>>)) =>
                  last'.err = "ValueError" /\ config' = config
       /\ IsCall("directories_set") =>
            /\ \A a \in ShapeErrors : directories_set_call(a) =>
                  last'.err = "TypeError" /\ config' = config
            /\ directories_set_call(PyList(<<>>)) =>
                  last'.err = "ValueError" /\ config' = config
       /\ IsCall("subdirectories_set") =>
            /\ \A a \in ShapeErrors : subdirectories_set_call(a) =>
                  last'.err = "TypeError" /\ config' = config
            /\ subdirectories_set_call(PyList(<<>>)) =>
                  last'.err = "ValueError" /\ config' = config]_vars

\* C11 witness: directories_set has raised TypeError while two directories
\* are stored, and both are still there.
C11_Witness ==
    /\ last = [op |-> "directories_set", err |-> "TypeError"]
    /\ directories_get(config) = << <<"a", "/">>, <<"b", "/">> >>

\* seq lists the elements of the set S in ascending order, each once.
AscendingListOf(seq, S) ==
    /\ {seq[i] : i \in 1..Len(seq)} = S
    /\ \A i \in 1..Len(seq) : \A j \in (i + 1)..Len(seq) :
           str_lt(seq[i], seq[j])

UserLicenseFile(ext) ==
    [dir |-> config.paths[1].license, name |-> license_get(config)[1],
     ext |-> ext]

\* C13: the license text written into the project directory (LICENSE.txt by
\* _license_sign, the license section of README.md by _doc_create) is taken
\* from the user license path if that path holds the file of the chosen
\* license, and from the stock system path only otherwise.
C13_UserLicenseTextPreferred ==
    /\ last.op = "_license_sign" =>
           IF UserLicenseFile(".txt") \in files
           THEN /\ last.err = ""
                /\ ret.val.type = "str"
                /\ ret.val.v = UserLicenseFile(".txt")
           ELSE last.err = "" => ret.val.v.dir = system_license_path
    /\ last.op = "_doc_create" =>
           IF UserLicenseFile(".md") \in files
           THEN /\ last.err = ""
                /\ ret.val.type = "str"
                /\ ret.val.v = UserLicenseFile(".md")
           ELSE last.err = "" => ret.val.v.dir = system_license_path

\* C14: the constructor hands each documented keyword argument to the
\* matching mutator, so that after construction the matching getter reflects
\* it; in particular a paths mapping is accepted by paths_set and paths_get()
\* returns the roots supplied.
C14_KwargsReachMutators ==
    /\ (HasKey(kwargs, "paths") /\ last.op = "paths_set") =>
           /\ last.err = ""
           /\ \A key \in DOMAIN Lookup(kwargs, "paths").v :
                  paths_get(config, <<PyStr(key)>>).val.v
                      = Lookup(kwargs, "paths").v[key].v
    /\ pc = "ready" =>
           /\ HasKey(kwargs, "authors") =>
                  config.authors[1] = Elements(Lookup(kwargs, "authors"))
           /\ HasKey(kwargs, "directories") =>
                  config.directories[1] =
                      {Normalized(d) : d \in Elements(Lookup(kwargs, "directories"))}
           /\ HasKey(kwargs, "subdirectories") =>
                  config.subdirectories[1] =
                      {Normalized(d) :
                          d \in Elements(Lookup(kwargs, "subdirectories"))}
           /\ HasKey(kwargs, "language") =>
                  language_get(config) = <<Lookup(kwargs, "language").v>>
           /\ HasKey(kwargs, "license") =>
                  license_get(config) = <<Lookup(kwargs, "license").v>>
           /\ HasKey(kwargs, "quiet") =>
                  quiet_get(config) = <<Lookup(kwargs, "quiet").v>>

\* C15: paths_get called with two or more of the keys config, license,
\* template returns a list holding the stored path of each requested key,
\* in the order the keys were given.
C15_PathsGetManyReturnsList ==
    [][IsCall("paths_get") => \A args \in PathsGetInputs :
          (Len(args) >= 2 /\ paths_get_call(args)) =>
              /\ last'.err = ""
              /\ ret'.val.type = "list"
              /\ ret'.val.v = [i \in 1..Len(args) |->
                                 PyStr(config.paths[1][args[i].v])]]_vars

\* C16: paths_get() without argument returns a copy of the stored paths: a
\* modification the caller makes to the returned mapping changes nothing of
\* what later paths_get calls return.
C16_PathsGetReturnsCopy ==
    [][IsCall("result_dict_setitem") =>
          /\ \A args \in PathsGetInputs :
                 paths_get(config', args) = paths_get(config, args)
          /\ config' = config]_vars

\* C16 witness: the caller has changed the license path in the dictionary
\* that paths_get() returned, and the stored license path is the old one.
C16_Witness ==
    /\ last.op = "result_dict_setitem"
    /\ ret.val.v.license = "changed/"
    /\ paths_get(config, <<PyStr("license")>>).val = PyStr(user_license)

\* The fixed per-user default of each key of the paths.
DefaultPaths ==
    [config |-> user_config, license |-> user_license,
     template |-> user_template]

\* C17: after a successful paths_set each of the keys config, license and
\* template holds the value supplied in that call, or the fixed per-user
\* default if none was, whatever it held before; a call with a non-string
\* value or a key outside these three raises ValueError and leaves the
\* stored paths unchanged.
C17_PathsSetGivenOrDefault ==
    [][IsCall("paths_set") => \A kw \in PathsInputs : paths_set_call(kw) =>
          IF \A key \in DOMAIN kw :
                 key \in DOMAIN DefaultPaths /\ kw[key].type = "str"
          THEN /\ last'.err = ""
               /\ \A key \in DOMAIN DefaultPaths :
                      paths_get(config', <<PyStr(key)>>).val.v =
                          IF key \in DOMAIN kw THEN kw[key].v
                          ELSE DefaultPaths[key]
          ELSE /\ last'.err = "ValueError"
               /\ paths_get(config', <<>>) = paths_get(config, <<>>)]_vars

\* C17 witness: paths_set() has put the license path back to its default
\* while a custom license, chosen under the path tmp/, is still selected.
C17_Witness ==
    /\ last = [op |-> "paths_set", err |-> ""]
    /\ paths_get(config, <<>>).val.v = DefaultPaths
    /\ license_get(config) = <<zlib>>
    /\ [dir |-> "tmp/", name |-> zlib, ext |-> ".txt"] \in files
    /\ [dir |-> user_license, name |-> zlib, ext |-> ".txt"] \notin files

\* C18: quiet_set accepts only booleans: a non-boolean argument raises
\* TypeError and leaves quiet unchanged, None stores the default True, a
\* boolean b makes quiet_get() return b; and quiet_get() returns a boolean
\* in every reachable state after construction.
C18_QuietIsBoolean ==
    /\ [](pc = "ready" => quiet_get(config)[1] \in BOOLEAN)
    /\ [][IsCall("quiet_set") => \A a \in QuietInputs : quiet_set_call(a) =>
             IF a.type = "NoneType"
             THEN last'.err = "" /\ quiet_get(config') = <<TRUE>>
             ELSE IF a.type = "bool"
             THEN last'.err = "" /\ quiet_get(config') = <<a.v>>
             ELSE /\ last'.err = "TypeError"
                  /\ quiet_get(config') = quiet_get(config)]_vars

\* C18 witness: quiet_set has rejected a string while quiet was False, and
\* quiet is still False.
C18_Witness ==
    /\ last = [op |-> "quiet_set", err |-> "TypeError"]
    /\ quiet_get(config) = <<FALSE>>

\* The two places where the file of a license in one format may be.
UserFile(license, ext) ==
    [dir |-> config.paths[1].license, name |-> license, ext |-> ext]

SystemFile(license, ext) ==
    [dir |-> system_license_path, name |-> license, ext |-> ext]

\* The file names in a returned list.
Listed(val) == {val.v[i].v : i \in 1..Len(val.v)}

\* val lists, for license in format ext, the user file if it exists and the
\* stock file otherwise, and not both.
ListsPreferred(val, license, ext) ==
    IF UserFile(license, ext) \in files
    THEN /\ UserFile(license, ext) \in Listed(val)
         /\ SystemFile(license, ext) \notin Listed(val)
    ELSE /\ SystemFile(license, ext) \in Listed(val)
         /\ UserFile(license, ext) \notin Listed(val)

\* Each of the given licenses has, in each format, a file in the user license
\* path or in the system path.
FilesPresent(licenses) ==
    \A i \in 1..Len(licenses) : \A ext \in LICENSE_FORMATS :
        \/ UserFile(licenses[i], ext) \in files
        \/ SystemFile(licenses[i], ext) \in files

\* C19 as stated: licenses_list(fullname=True) yields exactly one file per
\* (license, format) pair, 2 x the number of licenses in licenses_list(); for
\* each pair the file of the user license path if it exists there and the
\* stock file otherwise, never both; license_get(fullname=True) does the
\* same for the selected license.
C19_FullnameOnePerPair ==
    [][/\ IsCall("licenses_list") =>
            LET licenses == licenses_list(config)
            IN  \A formats \in FormatOrders :
                  licenses_list_call(TRUE, formats) =>
                    /\ last'.err = ""
                    /\ ret'.val.type = "list"
                    /\ Len(ret'.val.v) = 2 * Len(licenses)
                    /\ \A i \in 1..Len(licenses) : \A ext \in LICENSE_FORMATS :
                           ListsPreferred(ret'.val, licenses[i], ext)
       /\ IsCall("license_get") => \A formats \in FormatOrders :
            license_get_call(TRUE, formats) =>
                /\ last'.err = ""
                /\ ret'.val.type = "list"
                /\ Len(ret'.val.v) = 2
                /\ \A ext \in LICENSE_FORMATS :
                       ListsPreferred(ret'.val, license_get(config)[1], ext)]_vars

\* C19 amended: as stated, provided that every license concerned (each one of
\* licenses_list(), resp. the selected one) has, in each format, a file in
\* the user license path or in the system path; otherwise the call raises
\* FileNotFoundError, licenses_list(fullname=True) after having yielded no
\* more than one file per pair.
C19_FullnameOnePerPairIfPresent ==
    [][/\ IsCall("licenses_list") =>
            LET licenses == licenses_list(config)
            IN  \A formats \in FormatOrders :
                  licenses_list_call(TRUE, formats) =>
                    IF FilesPresent(licenses)
                    THEN /\ last'.err = ""
                         /\ ret'.val.type = "list"
                         /\ Len(ret'.val.v) = 2 * Len(licenses)
                         /\ \A i \in 1..Len(licenses) :
                              \A ext \in LICENSE_FORMATS :
                                ListsPreferred(ret'.val, licenses[i], ext)
                    ELSE /\ last'.err = "FileNotFoundError"
                         /\ Len(ret'.val.v) < 2 * Len(licenses)
                         /\ Cardinality(Listed(ret'.val)) = Len(ret'.val.v)
       /\ IsCall("license_get") => \A formats \in FormatOrders :
            license_get_call(TRUE, formats) =>
                IF FilesPresent(<<license_get(config)[1]>>)
                THEN /\ last'.err = ""
                     /\ ret'.val.type = "list"
                     /\ Len(ret'.val.v) = 2
                     /\ \A ext \in LICENSE_FORMATS :
                          ListsPreferred(ret'.val, license_get(config)[1], ext)
                ELSE last'.err = "FileNotFoundError"]_vars

\* C19 witness: licenses_list(fullname=True) has listed the two files of the
\* bsd2 license that overrides the stock one in the user license path tmp/,
\* ten files in all.
C19_Witness ==
    /\ last = [op |-> "licenses_list", err |-> ""]
    /\ ret.val.type = "list"
    /\ Len(ret.val.v) = 10
    /\ \A ext \in LICENSE_FORMATS :
           /\ SystemFile(bsd2, ext) \in files
           /\ UserFile(bsd2, ext) \in Listed(ret.val)

\* n without its trailing path separator.
Stripped(n) ==
    IF endswith_sep(n) /\ Len(n) > 1 THEN SubSeq(n, 1, Len(n) - 1) ELSE n

\* The ways of passing the name n: as returned, with and without separator.
Spellings(n) == {n, Normalized(n), Stripped(n)}

\* C20: for every name n that directories_get() / subdirectories_get()
\* currently returns, the default subdirectories included, add(n) leaves the
\* set unchanged and discard(n) removes n from it, whether n is passed with
\* or without the trailing separator.
C20_AddDiscardSymmetric ==
    pc = "ready" =>
        /\ \A i \in 1..Len(directories_get(config)) :
             LET n == directories_get(config)[i]
             IN  \A s \in Spellings(n) :
                   /\ directory_add(config, PyStr(s)) = Ok(config)
                   /\ directory_discard(config, PyStr(s)).err = ""
                   /\ ~In(n, directories_get(
                               directory_discard(config, PyStr(s)).cfg))
        /\ \A i \in 1..Len(subdirectories_get(config)) :
             LET n == subdirectories_get(config)[i]
             IN  \A s \in Spellings(n) :
                   /\ subdirectory_add(config, PyStr(s)) = Ok(config)
                   /\ subdirectory_discard(config, PyStr(s)).err = ""
                   /\ ~In(n, subdirectories_get(
                               subdirectory_discard(config, PyStr(s)).cfg))

\* The constructor was given no authors and its authors_set round is over.
DefaultAuthorsDone == ~HasKey(kwargs, "authors") /\ Len(calls) >= 6

\* C21: when no authors are supplied to the constructor, the authors set
\* becomes the one-element set holding the GECOS field of the current user
\* if that is non-empty and the login name otherwise; if neither is there,
\* authors_set fails with an error that ends the construction, and no
\* default author is stored.
C21_DefaultAuthorFromUser ==
    DefaultAuthorsDone =>
        IF pw.pw_gecos # <<>>
        THEN authors_get(config) = <<pw.pw_gecos>>
        ELSE IF pw.pw_name # <<>>
        THEN authors_get(config) = <<pw.pw_name>>
        ELSE /\ pc = "failed"
             /\ last = [op |-> "authors_set", err |-> "RuntimeError"]
             /\ authors_get(config) = <<>>

\* C21 witness: a construction without authors has succeeded for a user
\* whose GECOS field is empty, and the login name is the only author.
C21_Witness ==
    /\ DefaultAuthorsDone
    /\ pc = "ready"
    /\ pw.pw_gecos = <<>>
    /\ authors_get(config) = << <<"b">> >>

\* C22: GenMakeConfig.authors_set called with no argument or None sets the
\* single author to the GECOS or name field of the current user: afterwards
\* authors_get() has exactly one element, which is author_fetch().
C22_GenMakeSingleDefaultAuthor ==
    [][(IsCall("GenMakeConfig.authors_set")
          /\ GenMakeConfig_authors_set_call(PyNone)) =>
             /\ last'.err = ""
             /\ Cardinality(GenMakeConfig_authors_get(config')) = 1
             /\ GenMakeConfig_authors_get(config') =
                    {GenMakeConfig_author_fetch(pw).val}]_vars

\* x occurs in the string s
Occurs(x, s) ==
    \E i \in 1..(Len(s) - Len(x) + 1) : SubSeq(s, i, i + Len(x) - 1) = x

\* C23: when language_set or license_set rejects an explicit choice, the
\* message of the ValueError names the allowed set: it lists every value that
\* languages_list() or licenses_list() returns.
C23_RejectionListsAllowedChoices ==
    /\ (last = [op |-> "language_set", err |-> "ValueError"]) =>
           /\ ret.val.type = "str"
           /\ \A language \in LANGUAGES : Occurs(language, ret.val.v)
    /\ (last = [op |-> "license_set", err |-> "ValueError"]) =>
           /\ ret.val.type = "str"
           /\ \A license \in config.licenses[1] : Occurs(license, ret.val.v)

\* The key read at entry i of the log, in lower case, is k.
KeyAt(i, k) == drive.log[i].ev = "key" /\ lower(drive.log[i].name) = k

\* The run has entry ev for file name of directory dir.
Logged(ev, dir, name) ==
    \E i \in 1..Len(drive.log) :
        /\ drive.log[i].ev = ev
        /\ drive.log[i].dir = dir
        /\ drive.log[i].name = name

\* C24: in skaff_drive, once the user presses 'a' at the prompt of one
\* directory (a prompt appears only when quiet is False), that directory and
\* every later directory of the run are processed without a prompt and
\* without the editor: quiet stays True to the end of the run.
C24_SkipAllAfterA ==
    \A i \in 1..Len(drive.log) :
        KeyAt(i, "a") =>
            /\ \A j \in (i + 1)..Len(drive.log) :
                   drive.log[j].ev \notin {"prompt", "key", "timeout", "edit"}
            /\ \A j \in 1..Len(drive.log) :
                   (drive.log[j].ev = "edit") =>
                       drive.log[j].dir # drive.log[i].dir
            /\ pc # "prompt"
            /\ quiet_get(config) = Some(TRUE)

\* 'a' was pressed for a/, and b/ has been processed to its end after it.
C24_Witness ==
    /\ pc = "done"
    /\ \E i \in 1..Len(drive.log) :
           /\ KeyAt(i, "a")
           /\ drive.log[i].dir = <<"a", sep>>
           /\ \E j \in (i + 1)..Len(drive.log) :
                  /\ drive.log[j].ev = "write"
                  /\ drive.log[j].dir = <<"b", sep>>
                  /\ drive.log[j].name = "Doxyfile"

\* C25: pressing 'k' at the prompt of a directory skips the editing of that
\* directory only: no editor is run for it, quiet is False again once the
\* directory is done, and the next directory is prompted as usual.
C25_SkipOneAfterK ==
    \A i \in 1..Len(drive.log) :
        KeyAt(i, "k") =>
            LET directory == drive.log[i].dir
                later == (i + 1)..Len(drive.log)
            IN  /\ \A j \in 1..Len(drive.log) :
                       (drive.log[j].ev = "edit") =>
                           drive.log[j].dir # directory
                /\ (/\ \E j \in later : /\ drive.log[j].ev = "write"
                                        /\ drive.log[j].dir = directory
                                        /\ drive.log[j].name = "Doxyfile"
                    /\ \A j \in later : ~KeyAt(j, "a") /\ ~KeyAt(j, "k"))
                       => quiet_get(config) = Some(FALSE)
                /\ \A j \in later :
                       (/\ drive.log[j].ev = "write"
                        /\ drive.log[j].name = "LICENSE.txt"
                        /\ \A m \in (i + 1)..(j - 1) : drive.log[m].ev # "key")
                           => \E m \in (j + 1)..Len(drive.log) :
                                  /\ drive.log[m].ev = "prompt"
                                  /\ drive.log[m].dir = drive.log[j].dir

\* 'k' was pressed for a/, then b/ was prompted and edited.
C25_Witness ==
    /\ pc = "done"
    /\ \E i \in 1..Len(drive.log) :
           /\ KeyAt(i, "k")
           /\ drive.log[i].dir = <<"a", sep>>
    /\ Logged("prompt", <<"b", sep>>, "")
    /\ Logged("edit", <<"b", sep>>, "Doxyfile")
    /\ ~Logged("edit", <<"a", sep>>, "CMakeLists.txt")

\* The prompt of directory ended with 'c' or with the timeout.
ContinuedOrTimedOut(directory) ==
    \E i \in 1..Len(drive.log) :
        /\ drive.log[i].dir = directory
        /\ drive.log[i].ev = "timeout" \/ KeyAt(i, "c")

\* 'a' or 'k' was pressed at the prompt of directory.
Skipped(directory) ==
    \E i \in 1..Len(drive.log) :
        /\ drive.log[i].dir = directory
        /\ KeyAt(i, "a") \/ KeyAt(i, "k")

\* No key was read at the prompt of directory.
NoKey(directory) ==
    \A i \in 1..Len(drive.log) :
        drive.log[i].dir = directory => drive.log[i].ev # "key"

\* C26: at the prompt of a directory, the editing of CMakeLists.txt and of
\* Doxyfile starts exactly when the prompt ends with 'c' or with the timeout
\* and neither 'a' nor 'k' was pressed (Doxyfile once _doc_create has
\* generated it); no editor runs while the prompt waits; and when no key is
\* pressed the prompt ends 5 seconds after it appeared.
C26_EditAfterContinueOrTimeout ==
    /\ \A directory \in config.directories[1] :
           LET starts == ContinuedOrTimedOut(directory) /\ ~Skipped(directory)
           IN  /\ Logged("edit", directory, "CMakeLists.txt") <=> starts
               /\ Logged("edit", directory, "Doxyfile") <=>
                      (starts /\ Logged("write", directory, "Doxyfile"))
    /\ (pc = "prompt") =>
           /\ ~Logged("edit", drive.cur, "CMakeLists.txt")
           /\ ~Logged("edit", drive.cur, "Doxyfile")
    /\ (Logged("timeout", drive.cur, "") /\ NoKey(drive.cur)) =>
           drive.waited = PromptSeconds

\* No key was pressed for a/: both files were edited after 5 seconds.
C26_Witness ==
    /\ drive.cur = <<"a", sep>>
    /\ NoKey(drive.cur)
    /\ Logged("timeout", drive.cur, "")
    /\ drive.waited = PromptSeconds
    /\ Logged("edit", drive.cur, "CMakeLists.txt")
    /\ Logged("edit", drive.cur, "Doxyfile")

\* The directories skaff_drive is to make for directory: the root, one for
\* each subdirectory of the configuration, and include/<project name>.
TreeOf(directory) ==
    {directory}
    \cup {directory \o sub_dir : sub_dir \in config.subdirectories[1]}
    \cup {directory \o <<"i", "n", "c", "l", "u", "d", "e", sep>>
                     \o basename(SubSeq(directory, 1, Len(directory) - 1))}

\* Every directory of the tree of the directory of entry j was made before j.
TreeMadeBefore(j, paths) ==
    \A path \in paths :
        \E i \in 1..(j - 1) :
            /\ drive.log[i].ev = "makedirs"
            /\ drive.log[i].dir = drive.log[j].dir
            /\ drive.log[i].path = path

TreeBeforeFiles ==
    \A j \in 1..Len(drive.log) :
        (/\ drive.log[j].ev = "write"
         /\ \/ j = 1
            \/ drive.log[j - 1].ev # "write"
            \/ drive.log[j - 1].dir # drive.log[j].dir)
            => TreeMadeBefore(j, TreeOf(drive.log[j].dir))

\* C27: for each directory of directories_get(), skaff_drive makes the
\* project root, every subdirectory and include/<project name> before it
\* writes the license or any template or documentation file; and when the
\* project root is already there the run fails with FileExistsError, having
\* made and written nothing for that directory.
C27_TreeFirstAndRootMustBeNew ==
    /\ []TreeBeforeFiles
    /\ [][(pc = "loop" /\ normpath(Head(drive.dirs)) \in drive.tree) =>
              /\ pc' = "failed"
              /\ last' = [op |-> "skaff_drive", err |-> "FileExistsError"]
              /\ drive'.log = drive.log
              /\ drive'.tree = drive.tree]_vars

\* a/ was made and filled, and the run failed at b/, which was there already.
C27_Witness ==
    /\ pc = "failed"
    /\ last = [op |-> "skaff_drive", err |-> "FileExistsError"]
    /\ drive.cur = <<"b", sep>>
    /\ Logged("write", <<"a", sep>>, "Doxyfile")
    /\ \A i \in 1..Len(drive.log) : drive.log[i].dir # drive.cur

\* C28: getkey puts stdin into raw single-keystroke mode and reverts it: on
\* every exit from the call, the exit by the TimeOutError of the SIGALRM
\* handler included, the terminal attributes and the file-status flags of
\* stdin equal the values getkey saved at entry.
C28_TerminalRestoredOnExit ==
    (pc = "exit") =>
        /\ (tty.attrs_save # None) => tty.attrs = tty.attrs_save[1]
        /\ (tty.flags_save # None) => tty.flags = tty.flags_save[1]

\* A step that is a call of manuals_install: the disk's directories and
\* their permissions are as they were.
IsInstall ==
    /\ last'.op = "manuals_install"
    /\ man'.args # None
    /\ man'.dirs = man.dirs
    /\ man'.writable = man.writable

\* C29: manuals_install writes each manual X.N gzipped to
\* <directory>/manN/X.N.gz when the subdirectory manN exists and is writable,
\* and to <directory>/X.N.gz otherwise: a call that returns has installed
\* every manual passed, each to exactly that one place.
C29_ManualInstalledInOnePlace ==
    [][(IsInstall /\ last'.err = "") =>
          LET manuals == man'.args.manuals
              directory == IF endswith_sep(man'.args.directory)
                           THEN man'.args.directory
                           ELSE man'.args.directory \o <<sep>>
              place(manual) ==
                  LET manN == directory \o <<"m", "a", "n", manual[Len(manual)]>>
                      gz == basename(manual) \o <<".", "g", "z">>
                  IN  IF manN \in man.dirs /\ manN \in man.writable
                      THEN manN \o <<sep>> \o gz
                      ELSE directory \o gz
          IN  /\ Len(man'.written) = Len(manuals)
              /\ \A i \in 1..Len(manuals) :
                     man'.written[i] = place(manuals[i])
              /\ man'.installed =
                     man.installed \cup
                         {place(manuals[i]) : i \in 1..Len(manuals)}]_vars

\* x.1 went to man1, which is there and writable, and y.2 to the directory
\* itself, man2 being write-protected.
C29_Witness ==
    /\ last = [op |-> "manuals_install", err |-> ""]
    /\ MAN2 \in man.dirs /\ MAN2 \notin man.writable
    /\ man.written = << MAN1 \o <<sep, "x", ".", "1", ".", "g", "z">>,
                        MAN \o <<sep, "y", ".", "2", ".", "g", "z">> >>

\* C30: manpath_select(select=False) returns all the directories the manpath
\* program prints, one entry per directory, each ending with the path
\* separator, which is appended when it is missing.
C30_ManpathAllWithSeparator ==
    [][\A output \in ManpathInputs :
           manpath_select_call(output, FALSE) =>
               LET printed == split(strip(output))
               IN  /\ ret'.val.type = "list"
                   /\ Len(ret'.val.v) = Len(printed)
                   /\ \A i \in 1..Len(printed) :
                          ret'.val.v[i].v =
                              IF endswith_sep(printed[i]) THEN printed[i]
                              ELSE printed[i] \o <<sep>>]_vars


=============================================================================
